---- MODULE Spec2Model ----
(***************************************************************************)
(* PlatformSmbiosDxe (RK3566/RK3568): the SMBIOS record builder            *)
(* LogSmbiosData, the CRC-32 engine CalculateCrc32NoComp, the firmware     *)
(* version scanner of BIOSInfoUpdateSmbiosType0 and the driver entry point *)
(* PlatformSmbiosDriverEntryPoint with its topic builders.                 *)
(*                                                                         *)
(* Machine words wider than 31 bits are kept as little-endian byte         *)
(* sequences (a UINT32 is four bytes, a UINT64 eight), so that shifts,     *)
(* exclusive-or and truncation are computed on the bytes as the C code     *)
(* computes them on the word.  C strings are sequences of character codes  *)
(* without the terminating NUL; AsciiStrSize adds it back.                 *)
(***************************************************************************)
EXTENDS Integers, Sequences, FiniteSets, TLC

VARIABLES
  \* ---- CalculateCrc32NoComp and the serial number of SysInfoUpdateSmbiosType1
  crcPc,        \* "off" | "crc" | "otp" | "ret"
  Crc,          \* IN UINT32 Crc (the seed), four bytes
  Buffer,       \* IN VOID *Buffer, Length = Len(Buffer)
  OtpData,      \* UINT8 OtpData[16] as OtpRead filled it
  crcRet,       \* the value returned / BoardSerial
  \* ---- the version scanner of BIOSInfoUpdateSmbiosType0
  scanPc,       \* "off" | "loop" | "done"
  verStr,       \* mBiosVersion as the scanner sees it
  i,            \* INTN i
  State,        \* INTN State
  Value,        \* INTN Value[2]
  maxRead,      \* highest index of mBiosVersion read so far (-1: none)
  accepted,     \* the branch at "if ((State == 3) || (State == 4))" was taken
  Release,      \* <<SystemBiosMajorRelease, SystemBiosMinorRelease>>
  \* ---- one call of LogSmbiosData
  logPc,        \* "off" | "call" | "ret" | "hung"
  Template,     \* IN EFI_SMBIOS_TABLE_HEADER *Template: the bytes of the fixed record
  StringPack,   \* IN CHAR8 **StringPack: NULL, or the strings before the NULL end marker
  wantHandle,   \* DataSmbiosHandle != NULL
  logRet,       \* what the call did: status, buffer, registry submission, handle
  \* ---- PlatformSmbiosDriverEntryPoint and the topic builders
  entryPc,      \* index in EntrySequence of the next statement (0: not entered)
  halted,       \* the CPU sits in the dead loop of a failed ASSERT_EFI_ERROR
  platform,     \* what the firmware build and the board provide (fixed per run)
  faults,       \* failures the platform may still inject into LogSmbiosData calls
  nextHandle,   \* the handle Smbios->Add assigns to the next record it accepts
  smbios,       \* the registry: every Smbios->Add call, in order
  calls,        \* every LogSmbiosData call, in order
  entryStatus,  \* what the entry point returned, once it has
  order,        \* the statements of the entry point in the order they run
  mMemorySize,
  staging,      \* the CHAR8 mXxx[] buffers the string tables point into
  mBIOSInfoType0,
  mSysInfoType1,
  mBoardInfoType2,
  mProcessorInfoType4,
  mPhyMemArrayInfoType16,
  mMemDevInfoType17,
  mMemArrMapInfoType19

crcVars == <<crcPc, Crc, Buffer, OtpData, crcRet>>

scanVars == <<scanPc, verStr, i, State, Value, maxRead, accepted, Release>>

logVars == <<logPc, Template, StringPack, wantHandle, logRet>>

tableVars == <<mBIOSInfoType0, mSysInfoType1, mBoardInfoType2, mProcessorInfoType4,
               mPhyMemArrayInfoType16, mMemDevInfoType17, mMemArrMapInfoType19>>

entryVars == <<entryPc, halted, platform, faults, nextHandle, smbios, calls,
               entryStatus, order, mMemorySize, staging, tableVars>>

vars == <<crcVars, scanVars, logVars, entryVars>>

\* what each machine leaves alone
notCrc == <<scanVars, logVars, entryVars>>

notScan == <<crcVars, logVars, entryVars>>

notLog == <<crcVars, scanVars, entryVars>>

\* what the entry point leaves alone
notEntry == <<crcVars, scanVars, logVars>>

(***************************************************************************)
(* Bytes and words                                                         *)
(***************************************************************************)
Byte == 0..255

RECURSIVE XorBits(_, _, _)
XorBits(a, b, n) ==
  IF n = 0 THEN 0
  ELSE ((a + b) % 2) + 2 * XorBits(a \div 2, b \div 2, n - 1)

\* a ^ b on UINT8
Xor8(a, b) == XorBits(a, b, 8)

\* a ^ b on two words of the same width
XorW(a, b) == [k \in DOMAIN a |-> Xor8(a[k], b[k])]

\* A UINT32 literal 0xAABBCCDD, written in reading order, stored little-endian
W(b3, b2, b1, b0) == <<b0, b1, b2, b3>>

Zero32 == W(0, 0, 0, 0)

\* x >> 8 on UINT32
Shr8(x) == <<x[2], x[3], x[4], 0>>

\* (UINT8) x
Low8(x) == x[1]

(***************************************************************************)
(* mCrcTable[256]                                                          *)
(***************************************************************************)
mCrcTable == <<
  W(\h00, \h00, \h00, \h00), W(\h77, \h07, \h30, \h96), W(\hEE, \h0E, \h61, \h2C), W(\h99, \h09, \h51, \hBA),
  W(\h07, \h6D, \hC4, \h19), W(\h70, \h6A, \hF4, \h8F), W(\hE9, \h63, \hA5, \h35), W(\h9E, \h64, \h95, \hA3),
  W(\h0E, \hDB, \h88, \h32), W(\h79, \hDC, \hB8, \hA4), W(\hE0, \hD5, \hE9, \h1E), W(\h97, \hD2, \hD9, \h88),
  W(\h09, \hB6, \h4C, \h2B), W(\h7E, \hB1, \h7C, \hBD), W(\hE7, \hB8, \h2D, \h07), W(\h90, \hBF, \h1D, \h91),
  W(\h1D, \hB7, \h10, \h64), W(\h6A, \hB0, \h20, \hF2), W(\hF3, \hB9, \h71, \h48), W(\h84, \hBE, \h41, \hDE),
  W(\h1A, \hDA, \hD4, \h7D), W(\h6D, \hDD, \hE4, \hEB), W(\hF4, \hD4, \hB5, \h51), W(\h83, \hD3, \h85, \hC7),
  W(\h13, \h6C, \h98, \h56), W(\h64, \h6B, \hA8, \hC0), W(\hFD, \h62, \hF9, \h7A), W(\h8A, \h65, \hC9, \hEC),
  W(\h14, \h01, \h5C, \h4F), W(\h63, \h06, \h6C, \hD9), W(\hFA, \h0F, \h3D, \h63), W(\h8D, \h08, \h0D, \hF5),
  W(\h3B, \h6E, \h20, \hC8), W(\h4C, \h69, \h10, \h5E), W(\hD5, \h60, \h41, \hE4), W(\hA2, \h67, \h71, \h72),
  W(\h3C, \h03, \hE4, \hD1), W(\h4B, \h04, \hD4, \h47), W(\hD2, \h0D, \h85, \hFD), W(\hA5, \h0A, \hB5, \h6B),
  W(\h35, \hB5, \hA8, \hFA), W(\h42, \hB2, \h98, \h6C), W(\hDB, \hBB, \hC9, \hD6), W(\hAC, \hBC, \hF9, \h40),
  W(\h32, \hD8, \h6C, \hE3), W(\h45, \hDF, \h5C, \h75), W(\hDC, \hD6, \h0D, \hCF), W(\hAB, \hD1, \h3D, \h59),
  W(\h26, \hD9, \h30, \hAC), W(\h51, \hDE, \h00, \h3A), W(\hC8, \hD7, \h51, \h80), W(\hBF, \hD0, \h61, \h16),
  W(\h21, \hB4, \hF4, \hB5), W(\h56, \hB3, \hC4, \h23), W(\hCF, \hBA, \h95, \h99), W(\hB8, \hBD, \hA5, \h0F),
  W(\h28, \h02, \hB8, \h9E), W(\h5F, \h05, \h88, \h08), W(\hC6, \h0C, \hD9, \hB2), W(\hB1, \h0B, \hE9, \h24),
  W(\h2F, \h6F, \h7C, \h87), W(\h58, \h68, \h4C, \h11), W(\hC1, \h61, \h1D, \hAB), W(\hB6, \h66, \h2D, \h3D),
  W(\h76, \hDC, \h41, \h90), W(\h01, \hDB, \h71, \h06), W(\h98, \hD2, \h20, \hBC), W(\hEF, \hD5, \h10, \h2A),
  W(\h71, \hB1, \h85, \h89), W(\h06, \hB6, \hB5, \h1F), W(\h9F, \hBF, \hE4, \hA5), W(\hE8, \hB8, \hD4, \h33),
  W(\h78, \h07, \hC9, \hA2), W(\h0F, \h00, \hF9, \h34), W(\h96, \h09, \hA8, \h8E), W(\hE1, \h0E, \h98, \h18),
  W(\h7F, \h6A, \h0D, \hBB), W(\h08, \h6D, \h3D, \h2D), W(\h91, \h64, \h6C, \h97), W(\hE6, \h63, \h5C, \h01),
  W(\h6B, \h6B, \h51, \hF4), W(\h1C, \h6C, \h61, \h62), W(\h85, \h65, \h30, \hD8), W(\hF2, \h62, \h00, \h4E),
  W(\h6C, \h06, \h95, \hED), W(\h1B, \h01, \hA5, \h7B), W(\h82, \h08, \hF4, \hC1), W(\hF5, \h0F, \hC4, \h57),
  W(\h65, \hB0, \hD9, \hC6), W(\h12, \hB7, \hE9, \h50), W(\h8B, \hBE, \hB8, \hEA), W(\hFC, \hB9, \h88, \h7C),
  W(\h62, \hDD, \h1D, \hDF), W(\h15, \hDA, \h2D, \h49), W(\h8C, \hD3, \h7C, \hF3), W(\hFB, \hD4, \h4C, \h65),
  W(\h4D, \hB2, \h61, \h58), W(\h3A, \hB5, \h51, \hCE), W(\hA3, \hBC, \h00, \h74), W(\hD4, \hBB, \h30, \hE2),
  W(\h4A, \hDF, \hA5, \h41), W(\h3D, \hD8, \h95, \hD7), W(\hA4, \hD1, \hC4, \h6D), W(\hD3, \hD6, \hF4, \hFB),
  W(\h43, \h69, \hE9, \h6A), W(\h34, \h6E, \hD9, \hFC), W(\hAD, \h67, \h88, \h46), W(\hDA, \h60, \hB8, \hD0),
  W(\h44, \h04, \h2D, \h73), W(\h33, \h03, \h1D, \hE5), W(\hAA, \h0A, \h4C, \h5F), W(\hDD, \h0D, \h7C, \hC9),
  W(\h50, \h05, \h71, \h3C), W(\h27, \h02, \h41, \hAA), W(\hBE, \h0B, \h10, \h10), W(\hC9, \h0C, \h20, \h86),
  W(\h57, \h68, \hB5, \h25), W(\h20, \h6F, \h85, \hB3), W(\hB9, \h66, \hD4, \h09), W(\hCE, \h61, \hE4, \h9F),
  W(\h5E, \hDE, \hF9, \h0E), W(\h29, \hD9, \hC9, \h98), W(\hB0, \hD0, \h98, \h22), W(\hC7, \hD7, \hA8, \hB4),
  W(\h59, \hB3, \h3D, \h17), W(\h2E, \hB4, \h0D, \h81), W(\hB7, \hBD, \h5C, \h3B), W(\hC0, \hBA, \h6C, \hAD),
  W(\hED, \hB8, \h83, \h20), W(\h9A, \hBF, \hB3, \hB6), W(\h03, \hB6, \hE2, \h0C), W(\h74, \hB1, \hD2, \h9A),
  W(\hEA, \hD5, \h47, \h39), W(\h9D, \hD2, \h77, \hAF), W(\h04, \hDB, \h26, \h15), W(\h73, \hDC, \h16, \h83),
  W(\hE3, \h63, \h0B, \h12), W(\h94, \h64, \h3B, \h84), W(\h0D, \h6D, \h6A, \h3E), W(\h7A, \h6A, \h5A, \hA8),
  W(\hE4, \h0E, \hCF, \h0B), W(\h93, \h09, \hFF, \h9D), W(\h0A, \h00, \hAE, \h27), W(\h7D, \h07, \h9E, \hB1),
  W(\hF0, \h0F, \h93, \h44), W(\h87, \h08, \hA3, \hD2), W(\h1E, \h01, \hF2, \h68), W(\h69, \h06, \hC2, \hFE),
  W(\hF7, \h62, \h57, \h5D), W(\h80, \h65, \h67, \hCB), W(\h19, \h6C, \h36, \h71), W(\h6E, \h6B, \h06, \hE7),
  W(\hFE, \hD4, \h1B, \h76), W(\h89, \hD3, \h2B, \hE0), W(\h10, \hDA, \h7A, \h5A), W(\h67, \hDD, \h4A, \hCC),
  W(\hF9, \hB9, \hDF, \h6F), W(\h8E, \hBE, \hEF, \hF9), W(\h17, \hB7, \hBE, \h43), W(\h60, \hB0, \h8E, \hD5),
  W(\hD6, \hD6, \hA3, \hE8), W(\hA1, \hD1, \h93, \h7E), W(\h38, \hD8, \hC2, \hC4), W(\h4F, \hDF, \hF2, \h52),
  W(\hD1, \hBB, \h67, \hF1), W(\hA6, \hBC, \h57, \h67), W(\h3F, \hB5, \h06, \hDD), W(\h48, \hB2, \h36, \h4B),
  W(\hD8, \h0D, \h2B, \hDA), W(\hAF, \h0A, \h1B, \h4C), W(\h36, \h03, \h4A, \hF6), W(\h41, \h04, \h7A, \h60),
  W(\hDF, \h60, \hEF, \hC3), W(\hA8, \h67, \hDF, \h55), W(\h31, \h6E, \h8E, \hEF), W(\h46, \h69, \hBE, \h79),
  W(\hCB, \h61, \hB3, \h8C), W(\hBC, \h66, \h83, \h1A), W(\h25, \h6F, \hD2, \hA0), W(\h52, \h68, \hE2, \h36),
  W(\hCC, \h0C, \h77, \h95), W(\hBB, \h0B, \h47, \h03), W(\h22, \h02, \h16, \hB9), W(\h55, \h05, \h26, \h2F),
  W(\hC5, \hBA, \h3B, \hBE), W(\hB2, \hBD, \h0B, \h28), W(\h2B, \hB4, \h5A, \h92), W(\h5C, \hB3, \h6A, \h04),
  W(\hC2, \hD7, \hFF, \hA7), W(\hB5, \hD0, \hCF, \h31), W(\h2C, \hD9, \h9E, \h8B), W(\h5B, \hDE, \hAE, \h1D),
  W(\h9B, \h64, \hC2, \hB0), W(\hEC, \h63, \hF2, \h26), W(\h75, \h6A, \hA3, \h9C), W(\h02, \h6D, \h93, \h0A),
  W(\h9C, \h09, \h06, \hA9), W(\hEB, \h0E, \h36, \h3F), W(\h72, \h07, \h67, \h85), W(\h05, \h00, \h57, \h13),
  W(\h95, \hBF, \h4A, \h82), W(\hE2, \hB8, \h7A, \h14), W(\h7B, \hB1, \h2B, \hAE), W(\h0C, \hB6, \h1B, \h38),
  W(\h92, \hD2, \h8E, \h9B), W(\hE5, \hD5, \hBE, \h0D), W(\h7C, \hDC, \hEF, \hB7), W(\h0B, \hDB, \hDF, \h21),
  W(\h86, \hD3, \hD2, \hD4), W(\hF1, \hD4, \hE2, \h42), W(\h68, \hDD, \hB3, \hF8), W(\h1F, \hDA, \h83, \h6E),
  W(\h81, \hBE, \h16, \hCD), W(\hF6, \hB9, \h26, \h5B), W(\h6F, \hB0, \h77, \hE1), W(\h18, \hB7, \h47, \h77),
  W(\h88, \h08, \h5A, \hE6), W(\hFF, \h0F, \h6A, \h70), W(\h66, \h06, \h3B, \hCA), W(\h11, \h01, \h0B, \h5C),
  W(\h8F, \h65, \h9E, \hFF), W(\hF8, \h62, \hAE, \h69), W(\h61, \h6B, \hFF, \hD3), W(\h16, \h6C, \hCF, \h45),
  W(\hA0, \h0A, \hE2, \h78), W(\hD7, \h0D, \hD2, \hEE), W(\h4E, \h04, \h83, \h54), W(\h39, \h03, \hB3, \hC2),
  W(\hA7, \h67, \h26, \h61), W(\hD0, \h60, \h16, \hF7), W(\h49, \h69, \h47, \h4D), W(\h3E, \h6E, \h77, \hDB),
  W(\hAE, \hD1, \h6A, \h4A), W(\hD9, \hD6, \h5A, \hDC), W(\h40, \hDF, \h0B, \h66), W(\h37, \hD8, \h3B, \hF0),
  W(\hA9, \hBC, \hAE, \h53), W(\hDE, \hBB, \h9E, \hC5), W(\h47, \hB2, \hCF, \h7F), W(\h30, \hB5, \hFF, \hE9),
  W(\hBD, \hBD, \hF2, \h1C), W(\hCA, \hBA, \hC2, \h8A), W(\h53, \hB3, \h93, \h30), W(\h24, \hB4, \hA3, \hA6),
  W(\hBA, \hD0, \h36, \h05), W(\hCD, \hD7, \h06, \h93), W(\h54, \hDE, \h57, \h29), W(\h23, \hD9, \h67, \hBF),
  W(\hB3, \h66, \h7A, \h2E), W(\hC4, \h61, \h4A, \hB8), W(\h5D, \h68, \h1B, \h02), W(\h2A, \h6F, \h2B, \h94),
  W(\hB4, \h0B, \hBE, \h37), W(\hC3, \h0C, \h8E, \hA1), W(\h5A, \h05, \hDF, \h1B), W(\h2D, \h02, \hEF, \h8D)
>>

(***************************************************************************)
(* CalculateCrc32NoComp: for (Index = 0; Index < Length; Index++)          *)
(*   Crc = (Crc >> 8) ^ mCrcTable[(UINT8) Crc ^ *Ptr];                     *)
(***************************************************************************)
\* the same step without the low byte of the running value in the table index
CrcStepNoFeedback(c, b) == XorW(Shr8(c), mCrcTable[b + 1])

CrcStep(c, b) == XorW(Shr8(c), mCrcTable[Xor8(Low8(c), b) + 1])

RECURSIVE CrcLoop(_, _, _)
CrcLoop(c, buf, Index) ==
  IF Index < Len(buf) THEN CrcLoop(CrcStep(c, buf[Index + 1]), buf, Index + 1)
  ELSE c

\* the same loop with the result complemented on the way out
CalculateCrc32FinalComp(c, buf) == XorW(CrcLoop(c, buf, 0), W(\hFF, \hFF, \hFF, \hFF))

CalculateCrc32NoComp(c, buf) == CrcLoop(c, buf, 0)

(***************************************************************************)
(* SysInfoUpdateSmbiosType1, "Get serial number from OTP":                 *)
(*   SerialLo[Index] = OtpData[Index * 2 + 1];                             *)
(*   SerialHi[Index] = OtpData[Index * 2];                                 *)
(*   BoardSerial  = CalculateCrc32NoComp (0, SerialLo, 8);                 *)
(*   BoardSerial |= (UINT64) CalculateCrc32NoComp (BoardSerial, SerialHi,  *)
(*                                                 8) << 32;               *)
(* C index j of OtpData is element j + 1 of the sequence.                  *)
(***************************************************************************)
SerialLoEven(otp) == [Index \in 1..8 |-> otp[(Index - 1) * 2 + 1]]

SerialLo(otp) == [Index \in 1..8 |-> otp[((Index - 1) * 2 + 1) + 1]]

SerialHi(otp) == [Index \in 1..8 |-> otp[((Index - 1) * 2) + 1]]

\* The UINT64 BoardSerial, eight bytes little-endian: the low word is the
\* first CRC, the high word the second one seeded with the low word.
BoardSerialOf(otp) ==
  LET lo == CalculateCrc32NoComp(Zero32, SerialLo(otp))
      hi == CalculateCrc32NoComp(lo, SerialHi(otp))
  IN  lo \o hi

(***************************************************************************)
(* Inputs of the checksum specification                                    *)
(***************************************************************************)
MaxBufLen == 3
MaxOtpBase == 6
MaxOtpStep == 6

Ones32 == W(255, 255, 255, 255)

\* "123456789"
Check9 == <<49, 50, 51, 52, 53, 54, 55, 56, 57>>

CrcSeeds == {Zero32, Ones32, W(\h12, \h34, \h56, \h78)}

CrcBytes == {0, 49, 255}

RECURSIVE SeqsUpTo(_, _)
SeqsUpTo(S, n) ==
  IF n = 0 THEN {<<>>}
  ELSE LET shorter == SeqsUpTo(S, n - 1)
       IN  shorter \cup {Append(q, x) : q \in {r \in shorter : Len(r) = n - 1}, x \in S}

CrcBuffers == SeqsUpTo(CrcBytes, MaxBufLen) \cup {Check9}

\* Fuse contents: sixteen bytes base, base + step, base + 2 step, ... (mod 256)
OtpBuffer(base, step) == [j \in 1..16 |-> (base * 37 + (j - 1) * (step * 29 + 1)) % 256]

OtpInputs == {OtpBuffer(a, b) : a \in 0..MaxOtpBase, b \in 0..MaxOtpStep}

CrcOff ==
  /\ crcPc = "off"
  /\ Crc = Zero32
  /\ Buffer = <<>>
  /\ OtpData = <<>>
  /\ crcRet = <<>>

CrcStart ==
  /\ crcRet = <<>>
  /\ \/ /\ crcPc = "crc"
        /\ Crc \in CrcSeeds
        /\ Buffer \in CrcBuffers
        /\ OtpData = <<>>
     \/ /\ crcPc = "otp"
        /\ Crc = Zero32
        /\ Buffer = <<>>
        /\ OtpData \in OtpInputs

\* One call CalculateCrc32NoComp (Crc, Buffer, Length)
CalculateCrc32 ==
  /\ crcPc = "crc"
  /\ crcRet' = CalculateCrc32NoComp(Crc, Buffer)
  /\ crcPc' = "ret"
  /\ UNCHANGED <<Crc, Buffer, OtpData>>
  /\ UNCHANGED notCrc

\* OtpRead followed by the two chained checksum calls
DeriveBoardSerial ==
  /\ crcPc = "otp"
  /\ crcRet' = BoardSerialOf(OtpData)
  /\ crcPc' = "ret"
  /\ UNCHANGED <<Crc, Buffer, OtpData>>
  /\ UNCHANGED notCrc

NextCrc ==
  \/ CalculateCrc32
  \/ DeriveBoardSerial

(***************************************************************************)
(* C6 (as amended): CalculateCrc32NoComp applies no initial and no final   *)
(* complement, so with seed 0 the nine bytes "123456789" give 0x2DFD2D88;  *)
(* the standard CRC-32 check value 0xCBF43926 is what the same routine     *)
(* gives with seed 0xFFFFFFFF once the result is complemented.             *)
(***************************************************************************)
C6_NoCompCheckValue ==
  (crcPc = "ret" /\ Buffer = Check9) =>
     /\ (Crc = Zero32 => crcRet = W(\h2D, \hFD, \h2D, \h88))
     /\ (Crc = Ones32 => XorW(crcRet, Ones32) = W(\hCB, \hF4, \h39, \h26))

C6_Witness == crcPc = "ret" /\ Buffer = Check9 /\ Crc = Zero32

\* C6 as stated: CalculateCrc32NoComp(0, "123456789") = 0xCBF43926.
C6_Original ==
  (crcPc = "ret" /\ Buffer = Check9 /\ Crc = Zero32) =>
     crcRet = W(\hCB, \hF4, \h39, \h26)

(***************************************************************************)
(* C7: for every 16-byte OTP buffer the low 32 bits of the board serial    *)
(* are crc32(0, lo) and the high 32 bits crc32(low 32 bits, hi), lo being  *)
(* OTP[1], OTP[3], ..., OTP[15] and hi OTP[0], OTP[2], ..., OTP[14].       *)
(***************************************************************************)
OtpOdd == <<OtpData[2], OtpData[4], OtpData[6], OtpData[8],
            OtpData[10], OtpData[12], OtpData[14], OtpData[16]>>

OtpEven == <<OtpData[1], OtpData[3], OtpData[5], OtpData[7],
             OtpData[9], OtpData[11], OtpData[13], OtpData[15]>>

C7_SerialIsChainedCrc ==
  (crcPc = "ret" /\ OtpData # <<>>) =>
     /\ Len(crcRet) = 8
     /\ SubSeq(crcRet, 1, 4) = CalculateCrc32NoComp(Zero32, OtpOdd)
     /\ SubSeq(crcRet, 5, 8) = CalculateCrc32NoComp(SubSeq(crcRet, 1, 4), OtpEven)

C7_Witness ==
  /\ crcPc = "ret"
  /\ OtpData # <<>>
  /\ OtpOdd # OtpEven
  /\ SubSeq(crcRet, 1, 4) # SubSeq(crcRet, 5, 8)

(***************************************************************************)
(* The version scanner: the for loop of BIOSInfoUpdateSmbiosType0          *)
(***************************************************************************)
\* SMB_IS_DIGIT(c)
SMB_IS_DIGIT(c) == (c >= 48) /\ (c <= 57)

DOT == 46

\* mBiosVersion[k]: the characters, then the terminating NUL at k = Len
CharAt(s, k) == IF k < Len(s) THEN s[k + 1] ELSE 0

Max(a, b) == IF a > b THEN a ELSE b

\* the overflow branch without the while loop that skips the rest of the run
SkipNothing(s, st) == st

\* while (SMB_IS_DIGIT (mBiosVersion[i + 1])) i++;
RECURSIVE SkipDigits(_, _)
SkipDigits(s, st) ==
  LET seen == [st EXCEPT !.maxRead = Max(st.maxRead, st.i + 1)]
  IN  IF SMB_IS_DIGIT(CharAt(s, st.i + 1))
      THEN SkipDigits(s, [seen EXCEPT !.i = st.i + 1])
      ELSE seen

\* case 2 without the look-ahead at mBiosVersion[i + 1]
Case2NoLookAhead(s, st) ==
  LET seen == [st EXCEPT !.maxRead = Max(st.maxRead, st.i)]
  IN  IF CharAt(s, st.i) = DOT
      THEN [seen EXCEPT !.State = st.State + 1]
      ELSE [seen EXCEPT !.State = 0]

\* case 2: if ((mBiosVersion[i] == '.') && SMB_IS_DIGIT (mBiosVersion[i + 1]))
\*           State++; else State = 0;
Case2(s, st) ==
  LET seen == [st EXCEPT !.maxRead = Max(st.maxRead, st.i)]
  IN  IF CharAt(s, st.i) = DOT
      THEN LET ahead == [seen EXCEPT !.maxRead = Max(seen.maxRead, st.i + 1)]
           IN  IF SMB_IS_DIGIT(CharAt(s, st.i + 1))
               THEN [ahead EXCEPT !.State = st.State + 1]
               ELSE [ahead EXCEPT !.State = 0]
      ELSE [seen EXCEPT !.State = 0]

\* the accumulation of case 1 / case 3 without the "> 255" reset
AccumulateNoLimit(s, st) ==
  LET k == (st.State \div 2) + 1
  IN  [st EXCEPT !.Value[k] = (st.Value[k] * 10) + (CharAt(s, st.i) - 48)]

\* the accumulation with the reset made past 999 instead of past 255
AccumulateTo999(s, st) ==
  LET k   == (st.State \div 2) + 1
      v   == (st.Value[k] * 10) + (CharAt(s, st.i) - 48)
      acc == [st EXCEPT !.Value[k] = v]
  IN  IF v > 999 THEN [SkipDigits(s, acc) EXCEPT !.State = 0] ELSE acc

\* Value[State / 2] = (Value[State / 2] * 10) + (mBiosVersion[i] - '0');
\* if (Value[State / 2] > 255) { skip the digits that follow; State = 0; }
Accumulate(s, st) ==
  LET k   == (st.State \div 2) + 1
      v   == (st.Value[k] * 10) + (CharAt(s, st.i) - 48)
      acc == [st EXCEPT !.Value[k] = v]
  IN  IF v > 255 THEN [SkipDigits(s, acc) EXCEPT !.State = 0] ELSE acc

\* case 1: case 3: ... if (State != 2) break; and the fall through to case 2
Case13(s, st) ==
  LET seen == [st EXCEPT !.maxRead = Max(st.maxRead, st.i)]
      nxt  == IF SMB_IS_DIGIT(CharAt(s, st.i))
              THEN Accumulate(s, seen)
              ELSE [seen EXCEPT !.State = st.State + 1]
  IN  IF nxt.State # 2 THEN nxt ELSE Case2(s, nxt)

\* case 0: if (!SMB_IS_DIGIT (mBiosVersion[i])) break;
\*         Value[0] = Value[1] = 0; State++; and the fall through to case 1
Case0(s, st) ==
  LET seen == [st EXCEPT !.maxRead = Max(st.maxRead, st.i)]
  IN  IF ~SMB_IS_DIGIT(CharAt(s, st.i))
      THEN seen
      ELSE Case13(s, [seen EXCEPT !.Value = <<0, 0>>, !.State = st.State + 1])

\* the switch without the i++ of the for statement
ScanBodyNoStep(s, st) ==
  CASE st.State = 0 -> Case0(s, st)
    [] st.State \in {1, 3} -> Case13(s, st)
    [] st.State = 2 -> Case2(s, st)
    [] OTHER -> st

\* switch (State) { ... } followed by the i++ of the for statement
ScanBody(s, st) ==
  LET out == CASE st.State = 0 -> Case0(s, st)
               [] st.State \in {1, 3} -> Case13(s, st)
               [] st.State = 2 -> Case2(s, st)
               [] OTHER -> st
  IN  [out EXCEPT !.i = out.i + 1]

\* (i < AsciiStrLen (mBiosVersion)) && (State < 4)
ScanCond(s, st) == (st.i < Len(s)) /\ (st.State < 4)

RECURSIVE ScanLoop(_, _)
ScanLoop(s, st) == IF ScanCond(s, st) THEN ScanLoop(s, ScanBody(s, st)) ELSE st

\* (UINT8) x for the small non-negative INTN values of the scanner
ToUint8(x) == x % 256

\* if ((State == 3) || (State == 4)) { Major = (UINT8) Value[0]; Minor = (UINT8) Value[1]; }
ScanAccepts(st) == (st.State = 3) \/ (st.State = 4)

\* the store made whatever State the loop ended in
ScanReleaseAlways(st, old) == <<ToUint8(st.Value[1]), ToUint8(st.Value[2])>>

ScanRelease(st, old) ==
  IF ScanAccepts(st) THEN <<ToUint8(st.Value[1]), ToUint8(st.Value[2])>> ELSE old

\* mBIOSInfoType0.SystemBiosMajorRelease / SystemBiosMinorRelease as compiled in
DefaultRelease == <<0, 0>>

(***************************************************************************)
(* Inputs of the scanner specification                                     *)
(***************************************************************************)
MaxVerLen == 7

\* '2', '9', '.', 'v'
VerAlphabet == {50, 57, DOT, 118}

\* "Firmware X83737.1 v1.23"
VerFirmware == <<70, 105, 114, 109, 119, 97, 114, 101, 32, 88, 56, 51, 55, 51, 55,
                 46, 49, 32, 118, 49, 46, 50, 51>>

\* "EDK2-DEV 1.23"
VerEdk2Dev == <<69, 68, 75, 50, 45, 68, 69, 86, 32, 49, 46, 50, 51>>

\* "1.2.3"
Ver123 == <<49, 46, 50, 46, 51>>

\* "9."
Ver9Dot == <<57, 46>>

\* "no numbers here"
VerNoNumbers == <<110, 111, 32, 110, 117, 109, 98, 101, 114, 115, 32, 104, 101, 114, 101>>

\* "255.255"
VerEdges == <<50, 53, 53, 46, 50, 53, 53>>

\* "256.1 3.4"
VerMajor256 == <<50, 53, 54, 46, 49, 32, 51, 46, 52>>

\* "1.256.7.8"
VerMinor256 == <<49, 46, 50, 53, 54, 46, 55, 46, 56>>

\* "0012.0034x"
VerLeadingZeros == <<48, 48, 49, 50, 46, 48, 48, 51, 52, 120>>

VerNamed == {VerFirmware, VerEdk2Dev, Ver123, Ver9Dot, VerNoNumbers,
             VerEdges, VerMajor256, VerMinor256, VerLeadingZeros}

VerInputs == SeqsUpTo(VerAlphabet, MaxVerLen) \cup VerNamed

\* INTN Value[2] is not initialised: whatever the stack holds
StackValues == {<<0, 0>>, <<4660, -1>>}

ScanOff ==
  /\ scanPc = "off"
  /\ verStr = <<>>
  /\ i = 0
  /\ State = 0
  /\ Value = <<0, 0>>
  /\ maxRead = -1
  /\ accepted = FALSE
  /\ Release = DefaultRelease

ScanState == [i |-> i, State |-> State, Value |-> Value, maxRead |-> maxRead]

ScanStart ==
  /\ scanPc = "loop"
  /\ verStr \in VerInputs
  /\ i = 0
  /\ State = 0
  /\ Value \in StackValues
  /\ maxRead = -1
  /\ accepted = FALSE
  /\ Release = DefaultRelease

\* one iteration of the for loop
ScanIterate ==
  /\ scanPc = "loop"
  /\ ScanCond(verStr, ScanState)
  /\ LET st == ScanBody(verStr, ScanState)
     IN  /\ i' = st.i
         /\ State' = st.State
         /\ Value' = st.Value
         /\ maxRead' = st.maxRead
  /\ UNCHANGED <<scanPc, verStr, accepted, Release>>
  /\ UNCHANGED notScan

\* the loop condition fails; the result is stored (or not)
ScanFinish ==
  /\ scanPc = "loop"
  /\ ~ScanCond(verStr, ScanState)
  /\ accepted' = ScanAccepts(ScanState)
  /\ Release' = ScanRelease(ScanState, Release)
  /\ scanPc' = "done"
  /\ UNCHANGED <<verStr, i, State, Value, maxRead>>
  /\ UNCHANGED notScan

NextScan ==
  \/ ScanIterate
  \/ ScanFinish

(***************************************************************************)
(* LogSmbiosData                                                           *)
(***************************************************************************)
\* CHAR8 **StringPack: either NULL, or an array whose entries before the NULL
\* end marker are the strings of list
NullPack == [null |-> TRUE, list |-> <<>>]

Pack(list) == [null |-> FALSE, list |-> list]

\* EFI_SMBIOS_TABLE_HEADER { Type; Length; Handle; } with Handle = 0 as in
\* every table of the driver: { EFI_SMBIOS_TYPE_..., sizeof (...), 0 }
Header(Type, Length) == <<Type, Length, 0, 0>>

\* Template->Length
HdrLength(T) == T[2]

\* Template->Type
HdrType(T) == T[1]

\* AsciiStrSize counting the characters only
AsciiStrSizeNoNul(str) == Len(str)

\* AsciiStrSize (String): the length with the terminating NUL
AsciiStrSize(str) == Len(str) + 1

\* for (Index = 0; StringPack[Index] != NULL; Index++) Size += AsciiStrSize (...)
RECURSIVE SumStrSize(_, _)
SumStrSize(sp, Index) ==
  IF Index < Len(sp) THEN AsciiStrSize(sp[Index + 1]) + SumStrSize(sp, Index + 1)
  ELSE 0

\* the size computation without the extra byte of the empty string pack
LogSizeNoEmptyExtra(T, sp) ==
  IF sp.null THEN HdrLength(T) + 2
  ELSE HdrLength(T) + SumStrSize(sp.list, 0) + 1

\* "Calculate the size of the fixed record and optional string pack"
LogSize(T, sp) ==
  IF sp.null THEN HdrLength(T) + 2
  ELSE HdrLength(T) + SumStrSize(sp.list, 0) + (IF Len(sp.list) = 0 THEN 1 ELSE 0) + 1

\* AllocatePool (Size): the buffer holds what the pool held before
StalePool(Size) == [mem |-> [k \in 1..Size |-> 170], oob |-> FALSE, hi |-> 0]

\* AllocateZeroPool (Size): the buffer, whether a write went past its end,
\* and one past the highest offset written
ZeroPool(Size) == [mem |-> [k \in 1..Size |-> 0], oob |-> FALSE, hi |-> 0]

\* CopyMem (Record + off, bytes, Len(bytes)) / a store of Len(bytes) bytes at off
Store(R, off, bytes) ==
  [mem |-> [k \in 1..Len(R.mem) |->
              IF (k - 1 >= off) /\ (k - 1 < off + Len(bytes))
              THEN bytes[k - off] ELSE R.mem[k]],
   oob |-> R.oob \/ (off + Len(bytes) > Len(R.mem)),
   hi  |-> IF Len(bytes) = 0 THEN R.hi ELSE Max(R.hi, off + Len(bytes))]

\* the append loop advancing Str by the characters only
RECURSIVE AppendStringsNoAdvance(_, _, _, _)
AppendStringsNoAdvance(R, sp, Index, Str) ==
  IF Index < Len(sp)
  THEN LET StringSize == AsciiStrSize(sp[Index + 1])
           src == SubSeq(sp[Index + 1] \o <<0>>, 1, StringSize)
       IN  AppendStringsNoAdvance(Store(R, Str, src), sp, Index + 1, Str + StringSize - 1)
  ELSE [rec |-> R, Str |-> Str]

\* for (Index = 0; StringPack[Index] != NULL; Index++) {
\*   StringSize = AsciiStrSize (StringPack[Index]);
\*   CopyMem (Str, StringPack[Index], StringSize);  Str += StringSize; }
RECURSIVE AppendStrings(_, _, _, _)
AppendStrings(R, sp, Index, Str) ==
  IF Index < Len(sp)
  THEN LET StringSize == AsciiStrSize(sp[Index + 1])
           src == SubSeq(sp[Index + 1] \o <<0>>, 1, StringSize)
       IN  AppendStrings(Store(R, Str, src), sp, Index + 1, Str + StringSize)
  ELSE [rec |-> R, Str |-> Str]

\* CopyMem (Record, Template, Template->Length); the append loop; *Str = 0.
\* With StringPack = NULL the loop reads StringPack[Index] through address 0:
\* atNull is the string list those reads happen to find there.
FillRecord(T, sp, atNull) ==
  LET body == Store(ZeroPool(LogSize(T, sp)), 0, SubSeq(T, 1, HdrLength(T)))
      app  == AppendStrings(body, IF sp.null THEN atNull ELSE sp.list, 0, HdrLength(T))
  IN  Store(app.rec, app.Str, <<0>>)

EFI_SUCCESS == "EFI_SUCCESS"
EFI_NOT_FOUND == "EFI_NOT_FOUND"
EFI_OUT_OF_RESOURCES == "EFI_OUT_OF_RESOURCES"
EFI_ALREADY_STARTED == "EFI_ALREADY_STARTED"

\* SMBIOS_HANDLE_PI_RESERVED
SMBIOS_HANDLE_PI_RESERVED == 65534

\* marks an OUT handle the call did not store to
NotWritten == -1

\* What the platform does to one call:
\*   located  gBS->LocateProtocol finds the SMBIOS protocol
\*   alloc    AllocateZeroPool returns a buffer
\*   add      the status Smbios->Add returns
\*   handle   the handle Add assigns on success
\*   debug    ASSERT_EFI_ERROR is compiled in and halts on an error status
\*   fault    the read of StringPack[Index] through a NULL StringPack traps
\*   atNull   see FillRecord
Env(located, alloc, add, handle, debug, fault, atNull) ==
  [located |-> located, alloc |-> alloc, add |-> add, handle |-> handle,
   debug |-> debug, fault |-> fault, atNull |-> atNull]

\* a call on which nothing fails
EnvOk(handle) == Env(TRUE, TRUE, EFI_SUCCESS, handle, FALSE, FALSE, <<>>)

\* a call that reports success whatever Smbios->Add returned
ReturnSuccess(Status) == EFI_SUCCESS

\* return Status;
ReturnStatus(Status) == Status

\* AddStatus of a call that did not get as far as Smbios->Add
NotAdded == "not added"

\* an allocation that is taken to have succeeded whatever came back
RecordNeverNull(env) == FALSE

\* Record = AllocateZeroPool (Size); if (Record == NULL)
RecordIsNull(env) == ~env.alloc

\* The outcome of LogSmbiosData (Template, StringPack, DataSmbiosHandle):
\*   Status     the status returned (or held when the call does not return)
\*   AddStatus  the status Smbios->Add returned
\*   returned   FALSE when ASSERT_EFI_ERROR halted the call or the call trapped
\*   Record     the buffer handed to Smbios->Add, <<>> when Add was not reached
\*   Size       the size computed, 0 when the computation was not reached
\*   adds       number of Smbios->Add calls;  allocs / frees  likewise
\*   DataSmbiosHandle  the value stored through the pointer, or NotWritten
LogSmbiosData(T, sp, want, env) ==
  LET none == [Status |-> EFI_NOT_FOUND, AddStatus |-> NotAdded,
               returned |-> TRUE, Record |-> <<>>,
               oob |-> FALSE, hi |-> 0, Size |-> 0, adds |-> 0, allocs |-> 0,
               frees |-> 0, DataSmbiosHandle |-> NotWritten]
  IN  IF ~env.located THEN none
      ELSE IF RecordIsNull(env)
      THEN [none EXCEPT !.Status = EFI_OUT_OF_RESOURCES, !.Size = LogSize(T, sp)]
      ELSE IF sp.null /\ env.fault
      THEN [none EXCEPT !.Status = EFI_SUCCESS, !.returned = FALSE,
                        !.Size = LogSize(T, sp), !.allocs = 1]
      ELSE LET R == FillRecord(T, sp, env.atNull)
               SmbiosHandle == IF env.add = EFI_SUCCESS THEN env.handle
                               ELSE SMBIOS_HANDLE_PI_RESERVED
               asserted == (env.add # EFI_SUCCESS) /\ env.debug
           IN  [Status |-> ReturnStatus(env.add),
                AddStatus |-> env.add,
                returned |-> ~asserted,
                Record |-> R.mem,
                oob |-> R.oob,
                hi |-> R.hi,
                Size |-> LogSize(T, sp),
                adds |-> 1,
                allocs |-> 1,
                frees |-> IF asserted THEN 0 ELSE 1,
                DataSmbiosHandle |->
                  IF (env.add = EFI_SUCCESS) /\ want THEN SmbiosHandle ELSE NotWritten]

(***************************************************************************)
(* Inputs of the record builder specification                              *)
(***************************************************************************)
MaxStrings == 2
MaxStrLen == 2

LogTypes == {3, 127}

\* the fixed fields after the header
LogPayloads == {<<>>, <<0>>, <<171, 0>>}

\* 'A', 'B'
StrChars == {65, 66}

LogTemplates ==
  {Header(t, 4 + Len(x)) \o x : t \in LogTypes, x \in LogPayloads}

LogStrings == SeqsUpTo(StrChars, MaxStrLen)

LogStringPacks == SeqsUpTo(LogStrings, MaxStrings)

AddStatuses == {EFI_SUCCESS, EFI_OUT_OF_RESOURCES, EFI_ALREADY_STARTED}

LogHandles == {1, 66}

\* Smbios->Add succeeds and assigns a handle, or fails with or without the
\* ASSERT_EFI_ERROR of a debug build
AddOutcomes ==
  {[add |-> EFI_SUCCESS, handle |-> h, debug |-> FALSE] : h \in LogHandles}
    \cup {[add |-> a, handle |-> SMBIOS_HANDLE_PI_RESERVED, debug |-> d] :
             a \in AddStatuses \ {EFI_SUCCESS}, d \in BOOLEAN}

\* what a read of StringPack[Index] through a NULL StringPack may find
AtNullPacks == {<<>>, <<<<65>>>>}

\* logRet before the call has run
NoCall == [Status |-> EFI_SUCCESS, AddStatus |-> NotAdded,
           returned |-> FALSE, Record |-> <<>>,
           oob |-> FALSE, hi |-> 0, Size |-> 0, adds |-> 0, allocs |-> 0,
           frees |-> 0, DataSmbiosHandle |-> NotWritten]

LogOff ==
  /\ logPc = "off"
  /\ Template = <<>>
  /\ StringPack = NullPack
  /\ wantHandle = FALSE
  /\ logRet = NoCall

LogStart ==
  /\ logPc = "call"
  /\ Template \in LogTemplates
  /\ StringPack \in {Pack(l) : l \in LogStringPacks} \cup {NullPack}
  /\ wantHandle \in BOOLEAN
  /\ logRet = NoCall

\* LocateProtocol fails: return Status
LogNoProtocol ==
  /\ logPc = "call"
  /\ logRet' = LogSmbiosData(Template, StringPack, wantHandle,
                             Env(FALSE, TRUE, EFI_SUCCESS, 0, FALSE, FALSE, <<>>))
  /\ logPc' = "ret"
  /\ UNCHANGED <<Template, StringPack, wantHandle>>
  /\ UNCHANGED notLog

\* AllocateZeroPool fails: return EFI_OUT_OF_RESOURCES
LogNoMemory ==
  /\ logPc = "call"
  /\ logRet' = LogSmbiosData(Template, StringPack, wantHandle,
                             Env(TRUE, FALSE, EFI_SUCCESS, 0, FALSE, FALSE, <<>>))
  /\ logPc' = "ret"
  /\ UNCHANGED <<Template, StringPack, wantHandle>>
  /\ UNCHANGED notLog

\* the record is built and handed to Smbios->Add
LogSubmit ==
  /\ logPc = "call"
  /\ \E out \in AddOutcomes, atNull \in (IF StringPack.null THEN AtNullPacks ELSE {<<>>}) :
       LET r == LogSmbiosData(Template, StringPack, wantHandle,
                              Env(TRUE, TRUE, out.add, out.handle, out.debug, FALSE, atNull))
       IN  /\ logRet' = r
           /\ logPc' = IF r.returned THEN "ret" ELSE "hung"
  /\ UNCHANGED <<Template, StringPack, wantHandle>>
  /\ UNCHANGED notLog

\* StringPack is NULL and the read of StringPack[0] traps
LogNullTrap ==
  /\ logPc = "call"
  /\ StringPack.null
  /\ logRet' = LogSmbiosData(Template, StringPack, wantHandle,
                             Env(TRUE, TRUE, EFI_SUCCESS, 0, FALSE, TRUE, <<>>))
  /\ logPc' = "hung"
  /\ UNCHANGED <<Template, StringPack, wantHandle>>
  /\ UNCHANGED notLog

NextLog ==
  \/ LogNoProtocol
  \/ LogNoMemory
  \/ LogSubmit
  \/ LogNullTrap

(***************************************************************************)
(* PlatformSmbiosDriverEntryPoint: the tables and the string buffers       *)
(***************************************************************************)
\* one byte, two byte and four byte fields as they lie in a packed table
U8(x) == <<x % 256>>

U16(x) == <<x % 256, (x \div 256) % 256>>

U32(x) == <<x % 256, (x \div 256) % 256, (x \div 65536) % 256, (x \div 16777216) % 256>>

\* A UINT64 byte count or byte address is kept as whole MiB and the bytes
\* below: the value is MiB * 2^20 + Bytes, with Bytes < 2^20.
Wide(m, b) == [MiB |-> m, Bytes |-> b]

\* the eight bytes of such a value with the megabytes put at bit 24
U64ByteShift(w) ==
  <<w.Bytes % 256, (w.Bytes \div 256) % 256, w.Bytes \div 65536,
    w.MiB % 256, (w.MiB \div 256) % 256, (w.MiB \div 65536) % 256,
    (w.MiB \div 16777216) % 256, 0>>

\* the eight bytes of such a value
U64(w) ==
  <<w.Bytes % 256, (w.Bytes \div 256) % 256,
    (w.Bytes \div 65536) + (w.MiB % 16) * 16,
    (w.MiB \div 16) % 256, (w.MiB \div 4096) % 256,
    (w.MiB \div 1048576) % 256, (w.MiB \div 268435456) % 256, 0>>

\* a table: its header { Type, sizeof (table), 0 } and the fields after it
Struct(Type, fields) == Header(Type, 4 + Len(fields)) \o fields

\* "EDK2"
StrEDK2 == <<69, 68, 75, 50>>

\* "EDK2-DEV"
StrEDK2DEV == <<69, 68, 75, 50, 45, 68, 69, 86>>

\* "00/00/0000"
StrDate0 == <<48, 48, 47, 48, 48, 47, 48, 48, 48, 48>>

\* "Unknown ARM CPU"
StrUnknownCpu == <<85, 110, 107, 110, 111, 119, 110, 32, 65, 82, 77, 32, 67, 80, 85>>

\* "Internal"
StrInternal == <<73, 110, 116, 101, 114, 110, 97, 108>>

\* "Socket"
StrSocket == <<83, 111, 99, 107, 101, 116>>

\* "Rockchip"
StrRockchip == <<82, 111, 99, 107, 99, 104, 105, 112>>

\* "L1 Instruction"
StrL1I == <<76, 49, 32, 73, 110, 115, 116, 114, 117, 99, 116, 105, 111, 110>>

\* "L1 Data"
StrL1D == <<76, 49, 32, 68, 97, 116, 97>>

\* "L2"
StrL2 == <<76, 50>>

\* "SD Card"
StrSdCard == <<83, 68, 32, 67, 97, 114, 100>>

\* "SDRAM"
StrSDRAM == <<83, 68, 82, 65, 77>>

\* L" " converted by UnicodeStrToAsciiStrS
StrSpace == <<32>>

\* static CHAR8 ItoH[] = { '0', ..., '9', 'A', ..., 'F' }
ItoH == <<48, 49, 50, 51, 52, 53, 54, 55, 56, 57, 65, 66, 67, 68, 69, 70>>

\* the string buffers as the image holds them before the entry point runs:
\* three have initialisers, the others are zero filled
StagingStatic ==
  [mBiosVendor |-> StrEDK2, mBiosVersion |-> StrEDK2DEV, mBiosDate |-> StrDate0,
   mSysInfoManufName |-> <<>>, mSysInfoProductName |-> <<>>,
   mSysInfoFamilyName |-> <<>>, mSysInfoVersionName |-> <<>>,
   mSysInfoSerial |-> <<>>, mSysInfoSKU |-> <<>>,
   mChassisAssetTag |-> <<>>, mCpuName |-> StrUnknownCpu,
   mOemInfoProductUrl |-> <<>>, mMemDevInfoVendor |-> <<>>]

\* the tables as compiled in; of each table the fields the driver stores to
\* at run time are kept, the others are constant and left out
BIOSInfoType0Static ==
  [SystemBiosMajorRelease |-> 0, SystemBiosMinorRelease |-> 0,
   EmbeddedControllerFirmwareMajorRelease |-> 0,
   EmbeddedControllerFirmwareMinorRelease |-> 0]

\* Uuid = { 0x25EF0280, 0xEC82, 0x42B0, { 0x8F, 0xB6, 0x10, 0xAD, 0xCC, 0xC6, 0x7C, 0x02 } }
SysInfoType1Static ==
  [Uuid |-> <<128, 2, 239, 37, 130, 236, 176, 66, 143, 182, 16, 173, 204, 198, 124, 2>>]

BoardInfoType2Static == [ChassisHandle |-> 0]

ProcessorInfoType4Static ==
  [ProcessorId |-> <<0, 0, 0, 0, 0, 0, 0, 0>>, MaxSpeed |-> 0, CurrentSpeed |-> 0,
   L1CacheHandle |-> 65535, L2CacheHandle |-> 65535, L3CacheHandle |-> 65535,
   CoreCount |-> 4, EnabledCoreCount |-> 4, ThreadCount |-> 4,
   CoreCount2 |-> 0, EnabledCoreCount2 |-> 0, ThreadCount2 |-> 0]

PhyMemArrayInfoType16Static == [MaximumCapacity |-> 0]

MemDevInfoType17Static ==
  [MemoryArrayHandle |-> 0, Size |-> 65535,
   VolatileSize |-> <<255, 255, 255, 255, 255, 255, 255, 255>>]

MemArrMapInfoType19Static ==
  [StartingAddress |-> U32(0), EndingAddress |-> U32(0), MemoryArrayHandle |-> 0]

\* the bytes LogSmbiosData reads through (EFI_SMBIOS_TABLE_HEADER *) &mXxx
BytesType0(t) ==
  Struct(0, U8(t.SystemBiosMajorRelease) \o U8(t.SystemBiosMinorRelease)
            \o U8(t.EmbeddedControllerFirmwareMajorRelease)
            \o U8(t.EmbeddedControllerFirmwareMinorRelease))

BytesType1(t) == Struct(1, t.Uuid)

BytesType2(t) == Struct(2, U16(t.ChassisHandle))

BytesType4(t) ==
  Struct(4, t.ProcessorId \o U16(t.MaxSpeed) \o U16(t.CurrentSpeed)
            \o U16(t.L1CacheHandle) \o U16(t.L2CacheHandle) \o U16(t.L3CacheHandle)
            \o U8(t.CoreCount) \o U8(t.EnabledCoreCount) \o U8(t.ThreadCount)
            \o U16(t.CoreCount2) \o U16(t.EnabledCoreCount2) \o U16(t.ThreadCount2))

BytesType16(t) == Struct(16, U32(t.MaximumCapacity))

BytesType17(t) == Struct(17, U16(t.MemoryArrayHandle) \o U16(t.Size) \o t.VolatileSize)

BytesType19(t) ==
  Struct(19, t.StartingAddress \o t.EndingAddress \o U16(t.MemoryArrayHandle))

\* the tables no statement stores to
mEnclosureInfoType3 == Struct(3, <<1>>)

\* Cache Configuration 0x380, 0x180, 0x0181
mCacheInfoType7_L1I == Struct(7, <<1>> \o U16(896))

mCacheInfoType7_L1D == Struct(7, <<1>> \o U16(384))

mCacheInfoType7_L2 == Struct(7, <<1>> \o U16(385))

mSysSlotInfoType9 == Struct(9, <<1>>)

mOemStringsType11 == Struct(11, <<1>>)

mBootInfoType32 == Struct(32, <<0, 0, 0, 0, 0, 0, 0>>)

(***************************************************************************)
(* Library calls of the topic builders                                     *)
(***************************************************************************)
\* a copy that never happens
StrCpySNever(Destination, DestMax, Source) == Destination

\* UnicodeStrToAsciiStrS (Source, Destination, DestMax) and
\* AsciiStrCpyS (Destination, DestMax, Source): the copy is made when Source
\* and its NUL fit in DestMax bytes, and Destination is left as it is otherwise
StrCpyS(Destination, DestMax, Source) ==
  IF Len(Source) < DestMax THEN Source ELSE Destination

\* the decimal digits of n, most significant first
RECURSIVE Decimal(_)
Decimal(n) == IF n < 10 THEN <<48 + n>> ELSE Decimal(n \div 10) \o <<48 + (n % 10)>>

\* "%0<width>d": zero padded on the left up to width
RECURSIVE ZeroPad(_, _)
ZeroPad(str, width) == IF Len(str) < width THEN ZeroPad(<<48>> \o str, width) ELSE str

\* AsciiSPrint (Buffer, BufferSize, ...): at most BufferSize - 1 characters
Truncate(str, BufferSize) ==
  IF Len(str) > BufferSize - 1 THEN SubSeq(str, 1, BufferSize - 1) ELSE str

\* AsciiSPrint (mBiosDate, sizeof (mBiosDate), "%02d/%02d/%04d", Month, Day, Year)
FormatDate(Month, Day, Year) ==
  Truncate(ZeroPad(Decimal(Month), 2) \o <<47>> \o ZeroPad(Decimal(Day), 2) \o <<47>>
           \o ZeroPad(Decimal(Year), 4), 12)

\* nibble k (0 the least significant) of a UINT64 given by its eight bytes
Nibble(Val, k) ==
  IF k % 2 = 0 THEN Val[(k \div 2) + 1] % 16 ELSE Val[(k \div 2) + 1] \div 16

\* I64ToHexString: for (NibbleInx = 16; NibbleInx > 0; --NibbleInx)
\*   if (StringInx < TargetStringSize - 1) TargetStringSz[StringInx++] = ItoH[Nibble];
\*   else break;
RECURSIVE HexLoop(_, _, _, _)
HexLoop(Val, TargetStringSize, NibbleInx, str) ==
  IF (NibbleInx > 0) /\ (Len(str) < TargetStringSize - 1)
  THEN HexLoop(Val, TargetStringSize, NibbleInx - 1,
               Append(str, ItoH[Nibble(Val, NibbleInx - 1) + 1]))
  ELSE str

I64ToHexString(TargetStringSize, Val) == HexLoop(Val, TargetStringSize, 16, <<>>)

\* SwapBytes64 on the eight bytes of the value
SwapBytes64(Val) == [k \in 1..8 |-> Val[9 - k]]

\* UINT32 BoardRevision = 0, never stored to again
BoardRevision == <<0, 0, 0, 0, 0, 0, 0, 0>>

\* AsciiSPrint (mSysInfoVersionName, ..., "%X", BoardRevision) with
\* BoardRevision = 0: the single digit "0"
FormatBoardRevision == <<ItoH[Nibble(BoardRevision, 0) + 1]>>

\* ProcessorGetRate: the CRU rate unless the SCMI clock protocol is found
\* and reports one; the rates of the model are below 2^31 Hz, which
\* (UINT32) Rate leaves as they are
ProcessorGetRate(p) == IF p.scmi THEN p.ScmiRate ELSE p.CruRate

(***************************************************************************)
(* What the entry point runs on                                            *)
(***************************************************************************)
\* failures injected into the LogSmbiosData calls of one run, at most
MaxFaults == 2

\* The PCDs, the build date, the OTP bytes, the DRAM size and base, the
\* clock rates in Hz and MIDR_EL1 of two boards.  The first has 2 GiB of
\* DRAM at address 0 and a version string holding a release number, the
\* second 8 GiB at 2 MiB + 1 KiB and a version string without digits.
BoardA ==
  [PcdFirmwareVendor |-> <<69, 68, 75, 32, 73, 73>>,                  \* "EDK II"
   PcdFirmwareVersionString |-> VerFirmware,
   Month |-> 11, Day |-> 3, Year |-> 2023,
   OtpData |-> OtpBuffer(1, 3),
   PcdPlatformName |->                                               \* "ROC-RK3568-PC"
     <<82, 79, 67, 45, 82, 75, 51, 53, 54, 56, 45, 80, 67>>,
   PcdFamilyName |-> <<82, 75, 51, 53, 54, 120>>,                     \* "RK356x"
   PcdPlatformVendorName |-> <<70, 105, 114, 101, 102, 108, 121>>,    \* "Firefly"
   PcdCpuName |-> <<82, 75, 51, 53, 54, 56>>,                         \* "RK3568"
   PcdProductUrl |->                                                 \* "https://r.org"
     <<104, 116, 116, 112, 115, 58, 47, 47, 114, 46, 111, 114, 103>>,
   PcdMemoryVendorName |-> <<77, 105, 99, 114, 111, 110>>,            \* "Micron"
   PcdSystemMemoryBase |-> Wide(0, 0), SdramGetMemorySize |-> Wide(2048, 0),
   CruRate |-> 1416000000, scmi |-> TRUE, ScmiRate |-> 1992000000,
   Midr |-> <<80, 208, 47, 65, 0, 0, 0, 0>>]

BoardB ==
  [BoardA EXCEPT !.PcdFirmwareVersionString = VerNoNumbers,
                 !.Month = 1, !.Day = 31, !.Year = 2024,
                 !.OtpData = OtpBuffer(0, 0),
                 !.PcdSystemMemoryBase = Wide(2, 1024),
                 !.SdramGetMemorySize = Wide(8192, 0),
                 !.scmi = FALSE]

\* a third board: 1 GiB less 512 KiB less 7 bytes of usable DRAM at address
\* 0 and the version string "9."
BoardC ==
  [BoardA EXCEPT !.PcdFirmwareVersionString = Ver9Dot,
                 !.OtpData = OtpBuffer(5, 1),
                 !.SdramGetMemorySize = Wide(1023, 524281)]

Boards == {BoardA, BoardB, BoardC}

\* installed: gBS->LocateProtocol finds gEfiSmbiosProtocolGuid (the same
\* answer for every call of a run); debug: ASSERT_EFI_ERROR is compiled in;
\* base: the first handle the registry has free
Platforms ==
  {[board |-> b, installed |-> ins, debug |-> d, base |-> h] :
     b \in Boards, ins \in BOOLEAN, d \in BOOLEAN, h \in {0, 256}}

\* what an uninitialised EFI_SMBIOS_HANDLE local may hold
StackHandles == {0, 4660}

\* An injected failure: AllocateZeroPool returns NULL, or Smbios->Add
\* returns an error status
Outcomes(c) ==
  IF platform.installed /\ (c.faults > 0) /\ ~c.halted
  THEN {"ok", "nomem", "reject"} ELSE {"ok"}

\* the statements of PlatformSmbiosDriverEntryPoint with the board builder
\* called ahead of the enclosure builder
EntrySequenceBoardFirst ==
  <<"SdramGetMemorySize", "BIOSInfoUpdateSmbiosType0", "SysInfoUpdateSmbiosType1",
    "BoardInfoUpdateSmbiosType2", "EnclosureInfoUpdateSmbiosType3",
    "CacheInfoUpdateSmbiosType7", "ProcessorInfoUpdateSmbiosType4",
    "SysSlotInfoUpdateSmbiosType9", "OemStringsUpdateSmbiosType11",
    "PhyMemArrayInfoUpdateSmbiosType16", "MemDevInfoUpdateSmbiosType17",
    "MemArrMapInfoUpdateSmbiosType19", "BootInfoUpdateSmbiosType32", "return">>

\* the statements of PlatformSmbiosDriverEntryPoint, in program order
EntrySequence ==
  <<"SdramGetMemorySize", "BIOSInfoUpdateSmbiosType0", "SysInfoUpdateSmbiosType1",
    "EnclosureInfoUpdateSmbiosType3", "BoardInfoUpdateSmbiosType2",
    "CacheInfoUpdateSmbiosType7", "ProcessorInfoUpdateSmbiosType4",
    "SysSlotInfoUpdateSmbiosType9", "OemStringsUpdateSmbiosType11",
    "PhyMemArrayInfoUpdateSmbiosType16", "MemDevInfoUpdateSmbiosType17",
    "MemArrMapInfoUpdateSmbiosType19", "BootInfoUpdateSmbiosType32", "return">>

(***************************************************************************)
(* A LogSmbiosData call made by a topic builder                            *)
(***************************************************************************)
\* the registry, the call log and the platform's bookkeeping, threaded
\* through the calls of one builder
Ctx ==
  [smbios |-> smbios, calls |-> calls, nextHandle |-> nextHandle,
   faults |-> faults, halted |-> halted]

CallEnv(c, o) ==
  Env(platform.installed, o # "nomem",
      IF o = "reject" THEN EFI_ALREADY_STARTED ELSE EFI_SUCCESS,
      c.nextHandle, platform.debug, FALSE, <<>>)

\* LogSmbiosData (&name, strings, want ? &handle : NULL) under outcome o:
\*   ctx  the bookkeeping after the call
\*   r    what the call did (see LogSmbiosData)
\* Nothing runs once the CPU sits in the dead loop of an ASSERT.
Log(c, name, T, strings, want, o) ==
  IF c.halted THEN [ctx |-> c, r |-> NoCall]
  ELSE LET r == LogSmbiosData(T, Pack(strings), want, CallEnv(c, o))
           added == (r.adds = 1) /\ (r.Status = EFI_SUCCESS)
       IN  [ctx |->
              [smbios |-> IF r.adds = 1
                          THEN Append(c.smbios,
                                      [name |-> name, Record |-> r.Record,
                                       Status |-> r.Status,
                                       Handle |-> IF added THEN c.nextHandle
                                                  ELSE SMBIOS_HANDLE_PI_RESERVED])
                          ELSE c.smbios,
               calls |-> Append(c.calls, [name |-> name, Status |-> r.Status,
                                          returned |-> r.returned]),
               nextHandle |-> IF added THEN c.nextHandle + 1 ELSE c.nextHandle,
               faults |-> IF o = "ok" THEN c.faults ELSE c.faults - 1,
               halted |-> ~r.returned],
            r |-> r]

\* a call that never stores through DataSmbiosHandle
HandleAfterStale(s, prev) == prev

\* the value of an EFI_SMBIOS_HANDLE local after it was passed to a call:
\* what the call stored, or what the local held before (prev)
HandleAfter(s, prev) ==
  IF s.r.DataSmbiosHandle = NotWritten THEN prev ELSE s.r.DataSmbiosHandle

\* the values an uninitialised local may have when the call leaves it alone
LocalValues(s) ==
  IF s.r.DataSmbiosHandle = NotWritten THEN StackHandles ELSE {0}

\* the statement at entryPc is the call of builder name
At(name) ==
  /\ entryPc \in 1..Len(order)
  /\ order[entryPc] = name
  /\ ~halted

\* the builder ends with bookkeeping c: control returns to the entry point
\* unless an ASSERT holds the CPU
Leave(c) ==
  /\ smbios' = c.smbios
  /\ calls' = c.calls
  /\ nextHandle' = c.nextHandle
  /\ faults' = c.faults
  /\ halted' = c.halted
  /\ entryPc' = IF c.halted THEN entryPc ELSE entryPc + 1
  /\ UNCHANGED <<platform, entryStatus, order>>

(***************************************************************************)
(* The topic builders, one action each                                     *)
(***************************************************************************)
\* mMemorySize = SdramGetMemorySize ();
ReadMemorySize ==
  /\ At("SdramGetMemorySize")
  /\ mMemorySize' = platform.board.SdramGetMemorySize
  /\ entryPc' = entryPc + 1
  /\ UNCHANGED <<halted, platform, faults, nextHandle, smbios, calls, entryStatus,
                 order, staging, tableVars, notEntry>>

BIOSInfoUpdateSmbiosType0 ==
  /\ At("BIOSInfoUpdateSmbiosType0")
  /\ \E garbage \in StackValues, o \in Outcomes(Ctx) :
       LET b   == platform.board
           str == [staging EXCEPT
                     !.mBiosVendor = StrCpyS(@, 128, b.PcdFirmwareVendor),
                     !.mBiosVersion = StrCpyS(@, 128, b.PcdFirmwareVersionString),
                     !.mBiosDate = FormatDate(b.Month, b.Day, b.Year)]
           st  == ScanLoop(str.mBiosVersion,
                           [i |-> 0, State |-> 0, Value |-> garbage, maxRead |-> -1])
           rel == ScanRelease(st, <<mBIOSInfoType0.SystemBiosMajorRelease,
                                    mBIOSInfoType0.SystemBiosMinorRelease>>)
           t   == [mBIOSInfoType0 EXCEPT
                     !.EmbeddedControllerFirmwareMajorRelease = 0,
                     !.EmbeddedControllerFirmwareMinorRelease = 0,
                     !.SystemBiosMajorRelease = rel[1],
                     !.SystemBiosMinorRelease = rel[2]]
           s   == Log(Ctx, "mBIOSInfoType0", BytesType0(t),
                      <<str.mBiosVendor, str.mBiosVersion, str.mBiosDate>>, FALSE, o)
       IN  /\ staging' = str
           /\ mBIOSInfoType0' = t
           /\ Leave(s.ctx)
  /\ UNCHANGED <<mMemorySize, mSysInfoType1, mBoardInfoType2, mProcessorInfoType4,
                 mPhyMemArrayInfoType16, mMemDevInfoType17, mMemArrMapInfoType19,
                 notEntry>>

SysInfoUpdateSmbiosType1 ==
  /\ At("SysInfoUpdateSmbiosType1")
  /\ \E o \in Outcomes(Ctx) :
       LET b   == platform.board
           BoardSerial == BoardSerialOf(b.OtpData)
           str == [staging EXCEPT
                     !.mSysInfoProductName = StrCpyS(@, 128, b.PcdPlatformName),
                     !.mSysInfoFamilyName = StrCpyS(@, 128, b.PcdFamilyName),
                     !.mSysInfoManufName = StrCpyS(@, 128, b.PcdPlatformVendorName),
                     !.mSysInfoVersionName = FormatBoardRevision,
                     !.mSysInfoSKU = I64ToHexString(17, BoardRevision),
                     !.mSysInfoSerial = I64ToHexString(17, BoardSerial)]
           t   == [mSysInfoType1 EXCEPT
                     !.Uuid = SubSeq(BoardRevision, 1, 4) \o U16(0) \o U16(0)
                              \o SwapBytes64(BoardSerial)]
           s   == Log(Ctx, "mSysInfoType1", BytesType1(t),
                      <<str.mSysInfoManufName, str.mSysInfoProductName,
                        str.mSysInfoVersionName, str.mSysInfoSerial,
                        str.mSysInfoSKU, str.mSysInfoFamilyName>>, FALSE, o)
       IN  /\ staging' = str
           /\ mSysInfoType1' = t
           /\ Leave(s.ctx)
  /\ UNCHANGED <<mMemorySize, mBIOSInfoType0, mBoardInfoType2, mProcessorInfoType4,
                 mPhyMemArrayInfoType16, mMemDevInfoType17, mMemArrMapInfoType19,
                 notEntry>>

BoardInfoUpdateSmbiosType2 ==
  /\ At("BoardInfoUpdateSmbiosType2")
  /\ \E o \in Outcomes(Ctx) :
       LET s == Log(Ctx, "mBoardInfoType2", BytesType2(mBoardInfoType2),
                    <<staging.mSysInfoManufName, staging.mSysInfoProductName,
                      staging.mSysInfoVersionName, staging.mSysInfoSerial,
                      staging.mChassisAssetTag, StrInternal>>, FALSE, o)
       IN  Leave(s.ctx)
  /\ UNCHANGED <<mMemorySize, staging, tableVars, notEntry>>

\* EFI_SMBIOS_HANDLE SmbiosHandle is not initialised, and the store to
\* mBoardInfoType2.ChassisHandle is made whatever the call returned
EnclosureInfoUpdateSmbiosType3 ==
  /\ At("EnclosureInfoUpdateSmbiosType3")
  /\ \E o \in Outcomes(Ctx) :
       LET str == [staging EXCEPT !.mChassisAssetTag = StrCpyS(@, 128, StrSpace)]
           s   == Log(Ctx, "mEnclosureInfoType3", mEnclosureInfoType3,
                      <<str.mSysInfoManufName, str.mSysInfoProductName,
                        str.mSysInfoSerial, str.mChassisAssetTag>>, TRUE, o)
       IN  /\ staging' = str
           /\ \E SmbiosHandle \in LocalValues(s) :
                mBoardInfoType2' =
                  IF s.ctx.halted THEN mBoardInfoType2
                  ELSE [mBoardInfoType2 EXCEPT
                          !.ChassisHandle = HandleAfter(s, SmbiosHandle)]
           /\ Leave(s.ctx)
  /\ UNCHANGED <<mMemorySize, mBIOSInfoType0, mSysInfoType1, mProcessorInfoType4,
                 mPhyMemArrayInfoType16, mMemDevInfoType17, mMemArrMapInfoType19,
                 notEntry>>

ProcessorInfoUpdateSmbiosType4 ==
  /\ At("ProcessorInfoUpdateSmbiosType4")
  /\ \E o \in Outcomes(Ctx) :
       LET MaxCpus == 4
           Rate == ProcessorGetRate(platform.board)
           str  == [staging EXCEPT
                      !.mCpuName = StrCpyS(@, 128, platform.board.PcdCpuName)]
           t    == [mProcessorInfoType4 EXCEPT
                      !.CoreCount = ToUint8(MaxCpus), !.CoreCount2 = ToUint8(MaxCpus),
                      !.EnabledCoreCount = ToUint8(MaxCpus),
                      !.EnabledCoreCount2 = ToUint8(MaxCpus),
                      !.ThreadCount = ToUint8(MaxCpus), !.ThreadCount2 = ToUint8(MaxCpus),
                      !.MaxSpeed = (Rate \div 1000000) % 65536,
                      !.CurrentSpeed = (Rate \div 1000000) % 65536,
                      !.ProcessorId = platform.board.Midr]
           s    == Log(Ctx, "mProcessorInfoType4", BytesType4(t),
                       <<StrSocket, StrRockchip, str.mCpuName>>, FALSE, o)
       IN  /\ staging' = str
           /\ mProcessorInfoType4' = t
           /\ Leave(s.ctx)
  /\ UNCHANGED <<mMemorySize, mBIOSInfoType0, mSysInfoType1, mBoardInfoType2,
                 mPhyMemArrayInfoType16, mMemDevInfoType17, mMemArrMapInfoType19,
                 notEntry>>

\* one SmbiosHandle local serves both calls that ask for a handle: after a
\* failed L2 call it still holds what the L1 data call left in it
CacheInfoUpdateSmbiosType7 ==
  /\ At("CacheInfoUpdateSmbiosType7")
  /\ \E o1 \in Outcomes(Ctx) :
       LET s1 == Log(Ctx, "mCacheInfoType7_L1I", mCacheInfoType7_L1I,
                     <<StrL1I>>, FALSE, o1)
       IN  \E o2 \in Outcomes(s1.ctx) :
             LET s2 == Log(s1.ctx, "mCacheInfoType7_L1D", mCacheInfoType7_L1D,
                           <<StrL1D>>, TRUE, o2)
             IN  \E SmbiosHandle \in LocalValues(s2), o3 \in Outcomes(s2.ctx) :
                   LET l1 == HandleAfter(s2, SmbiosHandle)
                       s3 == Log(s2.ctx, "mCacheInfoType7_L2", mCacheInfoType7_L2,
                                 <<StrL2>>, TRUE, o3)
                       l2 == HandleAfter(s3, l1)
                   IN  /\ mProcessorInfoType4' =
                            [mProcessorInfoType4 EXCEPT
                               !.L1CacheHandle = IF s2.ctx.halted THEN @ ELSE l1,
                               !.L2CacheHandle = IF s3.ctx.halted THEN @ ELSE l2]
                       /\ Leave(s3.ctx)
  /\ UNCHANGED <<mMemorySize, staging, mBIOSInfoType0, mSysInfoType1, mBoardInfoType2,
                 mPhyMemArrayInfoType16, mMemDevInfoType17, mMemArrMapInfoType19,
                 notEntry>>

SysSlotInfoUpdateSmbiosType9 ==
  /\ At("SysSlotInfoUpdateSmbiosType9")
  /\ \E o \in Outcomes(Ctx) :
       Leave(Log(Ctx, "mSysSlotInfoType9", mSysSlotInfoType9, <<StrSdCard>>, FALSE, o).ctx)
  /\ UNCHANGED <<mMemorySize, staging, tableVars, notEntry>>

OemStringsUpdateSmbiosType11 ==
  /\ At("OemStringsUpdateSmbiosType11")
  /\ \E o \in Outcomes(Ctx) :
       LET str == [staging EXCEPT
                     !.mOemInfoProductUrl = StrCpyS(@, 128, platform.board.PcdProductUrl)]
           s   == Log(Ctx, "mOemStringsType11", mOemStringsType11,
                      <<str.mOemInfoProductUrl>>, FALSE, o)
       IN  /\ staging' = str
           /\ Leave(s.ctx)
  /\ UNCHANGED <<mMemorySize, tableVars, notEntry>>

\* mMemDevInfoType17.Size is a UINT16: the MiB count is cut to 16 bits.
\* EFI_SMBIOS_HANDLE MemArraySmbiosHandle is not initialised.
PhyMemArrayInfoUpdateSmbiosType16 ==
  /\ At("PhyMemArrayInfoUpdateSmbiosType16")
  /\ \E o \in Outcomes(Ctx) :
       LET Size == mMemorySize.MiB % 65536
           t16  == [mPhyMemArrayInfoType16 EXCEPT !.MaximumCapacity = Size * 1024]
           s    == Log(Ctx, "mPhyMemArrayInfoType16", BytesType16(t16), <<>>, TRUE, o)
       IN  /\ mPhyMemArrayInfoType16' = t16
           /\ \E MemArraySmbiosHandle \in LocalValues(s) :
                LET h == HandleAfter(s, MemArraySmbiosHandle)
                IN  /\ mMemDevInfoType17' =
                         [mMemDevInfoType17 EXCEPT
                            !.Size = Size,
                            !.VolatileSize = U64(Wide(Size, 0)),
                            !.MemoryArrayHandle = IF s.ctx.halted THEN @ ELSE h]
                    /\ mMemArrMapInfoType19' =
                         [mMemArrMapInfoType19 EXCEPT
                            !.MemoryArrayHandle = IF s.ctx.halted THEN @ ELSE h]
           /\ Leave(s.ctx)
  /\ UNCHANGED <<mMemorySize, staging, mBIOSInfoType0, mSysInfoType1, mBoardInfoType2,
                 mProcessorInfoType4, notEntry>>

MemDevInfoUpdateSmbiosType17 ==
  /\ At("MemDevInfoUpdateSmbiosType17")
  /\ \E o \in Outcomes(Ctx) :
       LET str == [staging EXCEPT
                     !.mMemDevInfoVendor =
                        StrCpyS(@, 128, platform.board.PcdMemoryVendorName)]
           s   == Log(Ctx, "mMemDevInfoType17", BytesType17(mMemDevInfoType17),
                      <<StrSDRAM, str.mMemDevInfoVendor>>, FALSE, o)
       IN  /\ staging' = str
           /\ Leave(s.ctx)
  /\ UNCHANGED <<mMemorySize, tableVars, notEntry>>

\* a byte count in KiB, a started kilobyte counted as a whole one
KiBRoundedUp(w) == (w.MiB * 1024) + ((w.Bytes + 1023) \div 1024)

\* a byte count or address in KiB; the DRAM sizes and bases of the model
\* keep it below 2^31
KiB(w) == (w.MiB * 1024) + (w.Bytes \div 1024)

\* both fields are UINT32: U32 cuts the 64-bit results to their low 32 bits
MemArrMapInfoUpdateSmbiosType19 ==
  /\ At("MemArrMapInfoUpdateSmbiosType19")
  /\ \E o \in Outcomes(Ctx) :
       LET StartingAddress == KiB(platform.board.PcdSystemMemoryBase)
           t == [mMemArrMapInfoType19 EXCEPT
                   !.StartingAddress = U32(StartingAddress),
                   !.EndingAddress = U32(StartingAddress + KiB(mMemorySize) - 1)]
           s == Log(Ctx, "mMemArrMapInfoType19", BytesType19(t), <<>>, FALSE, o)
       IN  /\ mMemArrMapInfoType19' = t
           /\ Leave(s.ctx)
  /\ UNCHANGED <<mMemorySize, staging, mBIOSInfoType0, mSysInfoType1, mBoardInfoType2,
                 mProcessorInfoType4, mPhyMemArrayInfoType16, mMemDevInfoType17,
                 notEntry>>

BootInfoUpdateSmbiosType32 ==
  /\ At("BootInfoUpdateSmbiosType32")
  /\ \E o \in Outcomes(Ctx) :
       Leave(Log(Ctx, "mBootInfoType32", mBootInfoType32, <<>>, FALSE, o).ctx)
  /\ UNCHANGED <<mMemorySize, staging, tableVars, notEntry>>

\* return EFI_SUCCESS;
EntryReturn ==
  /\ At("return")
  /\ entryStatus' = EFI_SUCCESS
  /\ entryPc' = entryPc + 1
  /\ UNCHANGED <<halted, platform, faults, nextHandle, smbios, calls, order,
                 mMemorySize, staging, tableVars, notEntry>>

\* the image as loaded: every static at its initialiser
EntryStatics ==
  /\ mMemorySize = Wide(0, 0)
  /\ staging = StagingStatic
  /\ mBIOSInfoType0 = BIOSInfoType0Static
  /\ mSysInfoType1 = SysInfoType1Static
  /\ mBoardInfoType2 = BoardInfoType2Static
  /\ mProcessorInfoType4 = ProcessorInfoType4Static
  /\ mPhyMemArrayInfoType16 = PhyMemArrayInfoType16Static
  /\ mMemDevInfoType17 = MemDevInfoType17Static
  /\ mMemArrMapInfoType19 = MemArrMapInfoType19Static

NotEntered == "not entered"

EntryOff ==
  /\ entryPc = 0
  /\ halted = FALSE
  /\ platform = [board |-> BoardA, installed |-> TRUE, debug |-> FALSE, base |-> 0]
  /\ faults = 0
  /\ nextHandle = 0
  /\ smbios = <<>>
  /\ calls = <<>>
  /\ entryStatus = NotEntered
  /\ order = EntrySequence
  /\ EntryStatics

\* the DXE core calls PlatformSmbiosDriverEntryPoint
EntryStart ==
  /\ entryPc = 1
  /\ halted = FALSE
  /\ platform \in Platforms
  /\ faults = MaxFaults
  /\ nextHandle = platform.base
  /\ smbios = <<>>
  /\ calls = <<>>
  /\ entryStatus = NotEntered
  /\ order = EntrySequence
  /\ EntryStatics

PlatformSmbiosDriverEntryPoint ==
  \/ ReadMemorySize
  \/ BIOSInfoUpdateSmbiosType0
  \/ SysInfoUpdateSmbiosType1
  \/ EnclosureInfoUpdateSmbiosType3
  \/ BoardInfoUpdateSmbiosType2
  \/ CacheInfoUpdateSmbiosType7
  \/ ProcessorInfoUpdateSmbiosType4
  \/ SysSlotInfoUpdateSmbiosType9
  \/ OemStringsUpdateSmbiosType11
  \/ PhyMemArrayInfoUpdateSmbiosType16
  \/ MemDevInfoUpdateSmbiosType17
  \/ MemArrMapInfoUpdateSmbiosType19
  \/ BootInfoUpdateSmbiosType32
  \/ EntryReturn

(***************************************************************************)
(* Specifications                                                          *)
(***************************************************************************)
InitCrc == CrcStart /\ ScanOff /\ LogOff /\ EntryOff

SpecCrc == InitCrc /\ [][NextCrc]_vars

InitScan == ScanStart /\ CrcOff /\ LogOff /\ EntryOff

SpecScan == InitScan /\ [][NextScan]_vars

\* The scanner on the shorter strings, with the processor going on to the
\* next statement for as long as there is one
MaxFairLen == 4

ScanStartShort ==
  /\ scanPc = "loop"
  /\ verStr \in SeqsUpTo(VerAlphabet, MaxFairLen) \cup VerNamed
  /\ i = 0
  /\ State = 0
  /\ Value \in StackValues
  /\ maxRead = -1
  /\ accepted = FALSE
  /\ Release = DefaultRelease

InitScanFair == ScanStartShort /\ CrcOff /\ LogOff /\ EntryOff

SpecScanFair == InitScanFair /\ [][NextScan]_vars /\ WF_vars(NextScan)

InitLog == LogStart /\ CrcOff /\ ScanOff /\ EntryOff

SpecLog == InitLog /\ [][NextLog]_vars

Init == EntryStart /\ CrcOff /\ ScanOff /\ LogOff

Next == PlatformSmbiosDriverEntryPoint

Spec == Init /\ [][Next]_vars

(***************************************************************************)
(* The entry point with its builder calls rearranged                       *)
(***************************************************************************)
\* how many neighbouring builder calls are exchanged, one pair after another
MaxSwaps == 1

\* statements k and k + 1 of the entry point exchanged
Swap(q, k) == [q EXCEPT ![k] = q[k + 1], ![k + 1] = q[k]]

\* the entry points that n exchanges of neighbouring builder calls lead to;
\* the DRAM size is read first and the return comes last in all of them
RECURSIVE Swapped(_)
Swapped(n) ==
  IF n = 0 THEN {EntrySequence}
  ELSE LET S == Swapped(n - 1)
       IN  S \cup {Swap(q, k) : q \in S, k \in 2..(Len(EntrySequence) - 2)}

CalledAt(q, name) == CHOOSE k \in 1..Len(q) : q[k] = name

CalledBefore(q, a, b) == CalledAt(q, a) < CalledAt(q, b)

\* chassis before board, caches before processor, memory array before
\* memory device and before mapped address
KeepsHandleOrder(q) ==
  /\ CalledBefore(q, "EnclosureInfoUpdateSmbiosType3", "BoardInfoUpdateSmbiosType2")
  /\ CalledBefore(q, "CacheInfoUpdateSmbiosType7", "ProcessorInfoUpdateSmbiosType4")
  /\ CalledBefore(q, "PhyMemArrayInfoUpdateSmbiosType16", "MemDevInfoUpdateSmbiosType17")
  /\ CalledBefore(q, "PhyMemArrayInfoUpdateSmbiosType16", "MemArrMapInfoUpdateSmbiosType19")

Reorderings == {q \in Swapped(MaxSwaps) : KeepsHandleOrder(q)}

\* a rearranged entry point is called on a platform where no call fails
ReorderedStart ==
  /\ entryPc = 1
  /\ halted = FALSE
  /\ platform \in Platforms
  /\ faults = 0
  /\ nextHandle = platform.base
  /\ smbios = <<>>
  /\ calls = <<>>
  /\ entryStatus = NotEntered
  /\ order \in Reorderings
  /\ EntryStatics

InitOrder == ReorderedStart /\ CrcOff /\ ScanOff /\ LogOff

SpecOrder == InitOrder /\ [][Next]_vars

(***************************************************************************)
(* Producers and consumers of handles: the record on the right carries the *)
(* handle of the record on the left.                                       *)
(***************************************************************************)
Dependencies ==
  {<<"mEnclosureInfoType3", "mBoardInfoType2">>,
   <<"mCacheInfoType7_L1I", "mProcessorInfoType4">>,
   <<"mCacheInfoType7_L1D", "mProcessorInfoType4">>,
   <<"mCacheInfoType7_L2", "mProcessorInfoType4">>,
   <<"mPhyMemArrayInfoType16", "mMemDevInfoType17">>,
   <<"mPhyMemArrayInfoType16", "mMemArrMapInfoType19">>}

\* positions of the entries of log that are about table name
Positions(log, name) == {k \in 1..Len(log) : log[k].name = name}

\* every entry about b comes after an entry about a
Preceded(log, a, b) ==
  \A k \in Positions(log, b) : \E j \in Positions(log, a) : j < k

\* no entry about a comes after an entry about b
NeverAfter(log, a, b) ==
  \A j \in Positions(log, a), k \in Positions(log, b) : j < k

\* the LogSmbiosData call for table name got as far as Smbios->Add
ReachedAdd(name) ==
  \E k \in Positions(calls, name) :
    calls[k].Status \notin {EFI_NOT_FOUND, EFI_OUT_OF_RESOURCES}

(***************************************************************************)
(* C1: in every execution of PlatformSmbiosDriverEntryPoint the chassis    *)
(* (Type 3) record is submitted before the board (Type 2) record, every    *)
(* cache (Type 7) record before the processor (Type 4) record, and the     *)
(* memory-array (Type 16) record before the memory-device (Type 17) and    *)
(* the mapped-address (Type 19) records: the producer's LogSmbiosData call *)
(* always precedes the consumer's, a producer is never submitted after its *)
(* consumer, and a producer whose call got as far as Smbios->Add is in the *)
(* registry by the time its consumer is called.                            *)
(***************************************************************************)
C1_ProducersFirst ==
  \A d \in Dependencies :
    /\ Preceded(calls, d[1], d[2])
    /\ NeverAfter(calls, d[1], d[2])
    /\ NeverAfter(smbios, d[1], d[2])
    /\ (Positions(calls, d[2]) # {} /\ ReachedAdd(d[1]))
         => Positions(smbios, d[1]) # {}
    /\ (Positions(smbios, d[2]) # {} /\ ReachedAdd(d[1]))
         => Preceded(smbios, d[1], d[2])

\* the entry point has returned and all fourteen records are in the
\* registry, the consumers among them
C1_Witness ==
  /\ entryStatus = EFI_SUCCESS
  /\ Len(smbios) = 14
  /\ Len(calls) = 14
  /\ \A d \in Dependencies :
       Positions(smbios, d[1]) # {} /\ Positions(smbios, d[2]) # {}

\* the cross-reference fields as they lie in the submitted records
ChassisHandleOf(Record) == SubSeq(Record, 5, 6)

L1CacheHandleOf(Record) == SubSeq(Record, 17, 18)

L2CacheHandleOf(Record) == SubSeq(Record, 19, 20)

MemoryArrayHandle17Of(Record) == SubSeq(Record, 5, 6)

MemoryArrayHandle19Of(Record) == SubSeq(Record, 13, 14)

\* the field of a submitted consumer record that refers to producer record
CrossReference(producer, consumer, Record) ==
  CASE consumer = "mBoardInfoType2" -> ChassisHandleOf(Record)
    [] consumer = "mProcessorInfoType4" /\ producer = "mCacheInfoType7_L1D"
         -> L1CacheHandleOf(Record)
    [] consumer = "mProcessorInfoType4" /\ producer = "mCacheInfoType7_L2"
         -> L2CacheHandleOf(Record)
    [] consumer = "mMemDevInfoType17" -> MemoryArrayHandle17Of(Record)
    [] consumer = "mMemArrMapInfoType19" -> MemoryArrayHandle19Of(Record)

\* the L1 instruction cache record is submitted without asking for its handle
References == Dependencies \ {<<"mCacheInfoType7_L1I", "mProcessorInfoType4">>}

(***************************************************************************)
(* C2: when the registration of a producer succeeds, the cross-reference   *)
(* field of its consumer record, as that consumer is submitted, equals the *)
(* handle the registry assigned to the producer: board.ChassisHandle the   *)
(* handle of the chassis record, processor.L1CacheHandle that of the L1    *)
(* data cache record, processor.L2CacheHandle that of the L2 cache record, *)
(* memory-device.MemoryArrayHandle and mapped-address.MemoryArrayHandle    *)
(* that of the memory-array record.                                        *)
(***************************************************************************)
C2_CrossReferences ==
  \A d \in References :
    \A j \in Positions(smbios, d[1]), k \in Positions(smbios, d[2]) :
      (smbios[j].Status = EFI_SUCCESS)
        => CrossReference(d[1], d[2], smbios[k].Record) = U16(smbios[j].Handle)

\* every producer was registered with a handle that differs from the
\* compiled-in value of the field it goes to, and every consumer submitted
C2_Witness ==
  /\ platform.base = 256
  /\ \A d \in References :
       /\ \E j \in Positions(smbios, d[1]) :
            smbios[j].Status = EFI_SUCCESS /\ smbios[j].Handle >= 256
       /\ \E k \in Positions(smbios, d[2]) :
            smbios[k].Status = EFI_SUCCESS

(***************************************************************************)
(* What the scanner is meant to find, stated on the string alone: the      *)
(* maximal digit runs of the string, and the leftmost pair of runs joined  *)
(* by a single '.' whose two values are both at most 255.                  *)
(***************************************************************************)
\* first index >= p that holds no digit (Len(s) when the run reaches the end)
RECURSIVE RunEnd(_, _)
RunEnd(s, p) == IF SMB_IS_DIGIT(CharAt(s, p)) THEN RunEnd(s, p + 1) ELSE p

\* decimal value of s[p .. e-1], saturating at 256
RECURSIVE RunValue(_, _, _, _)
RunValue(s, p, e, acc) ==
  IF p >= e THEN acc
  ELSE LET v == acc * 10 + (CharAt(s, p) - 48)
       IN  RunValue(s, p + 1, e, IF v > 255 THEN 256 ELSE v)

RunStarts(s) ==
  {p \in 0..(Len(s) - 1) :
     SMB_IS_DIGIT(CharAt(s, p)) /\ (p = 0 \/ ~SMB_IS_DIGIT(CharAt(s, p - 1)))}

\* the runs that start a <digits>.<digits> occurrence with both values <= 255
MatchStarts(s) ==
  {p \in RunStarts(s) :
     LET e == RunEnd(s, p)
     IN  /\ CharAt(s, e) = DOT
         /\ SMB_IS_DIGIT(CharAt(s, e + 1))
         /\ RunValue(s, p, e, 0) <= 255
         /\ RunValue(s, e + 1, RunEnd(s, e + 1), 0) <= 255}

Leftmost(S) == CHOOSE p \in S : \A q \in S : p <= q

MatchMajor(s, p) == RunValue(s, p, RunEnd(s, p), 0)

MatchMinor(s, p) ==
  LET e == RunEnd(s, p) IN RunValue(s, e + 1, RunEnd(s, e + 1), 0)

\* index of the first non-digit after the minor run of the match starting at p
MatchStop(s, p) == RunEnd(s, RunEnd(s, p) + 1)

(***************************************************************************)
(* C8: whenever the major or the minor accumulator exceeds 255 while       *)
(* accumulating, the candidate is abandoned: the remaining digits of that  *)
(* digit run are skipped, the scanner is back in the searching state and   *)
(* the loop goes on with the character after the run; and                  *)
(* "Firmware X83737.1 v1.23" yields major 1, minor 23.                     *)
(***************************************************************************)
\* the iteration about to run reads a digit that takes the accumulator past 255
OverflowsNow ==
  /\ scanPc = "loop"
  /\ ScanCond(verStr, ScanState)
  /\ SMB_IS_DIGIT(CharAt(verStr, i))
  /\ State \in {1, 3}
  /\ Value[(State \div 2) + 1] * 10 + (CharAt(verStr, i) - 48) > 255

C8_OverflowAbandons ==
  /\ [][OverflowsNow =>
          /\ State' = 0
          /\ i' = RunEnd(verStr, i)
          /\ scanPc' = "loop"]_vars
  /\ []((scanPc = "done" /\ verStr = VerFirmware) =>
          (accepted /\ Release = <<1, 23>>))

C8_Witness ==
  /\ scanPc = "done"
  /\ verStr = VerFirmware
  /\ Release = <<1, 23>>

(***************************************************************************)
(* C9: the scanner returns the leftmost <digits>.<digits> whose two        *)
(* components both stay at or below 255 and stops at the first non-digit   *)
(* after the minor digit run; "EDK2-DEV 1.23" yields (1,23) and "1.2.3"    *)
(* yields (1,2).                                                           *)
(***************************************************************************)
C9_LeftmostMatch ==
  (scanPc = "done") =>
     LET M == MatchStarts(verStr)
     IN  /\ accepted <=> (M # {})
         /\ accepted =>
              LET p == Leftmost(M)
              IN  /\ Release = <<MatchMajor(verStr, p), MatchMinor(verStr, p)>>
                  \* the loop ends on the first non-digit after the minor run
                  \* (or on the end of the string) and reads nothing after it
                  /\ (MatchStop(verStr, p) < Len(verStr)) =>
                        /\ State = 4
                        /\ i = MatchStop(verStr, p) + 1
                        /\ maxRead = MatchStop(verStr, p)
                  /\ (MatchStop(verStr, p) = Len(verStr)) =>
                        /\ State = 3
                        /\ i = Len(verStr)
                        /\ maxRead = Len(verStr) - 1
         /\ (verStr = VerEdk2Dev) => (accepted /\ Release = <<1, 23>>)
         /\ (verStr = Ver123) => (accepted /\ Release = <<1, 2>>)

C9_Witness ==
  /\ scanPc = "done"
  /\ verStr = Ver123
  /\ Release = <<1, 2>>
  /\ State = 4

(***************************************************************************)
(* C10: the scanner accepts only after a '.' that is immediately followed  *)
(* by a digit (and preceded by one); "9." and "no numbers here" are not    *)
(* found; a scan that ends in state 0, 1 or 2 is never accepted.           *)
(***************************************************************************)
C10_AcceptNeedsDotDigit ==
  (scanPc = "done") =>
     /\ accepted =>
          \E p \in 1..(Len(verStr) - 2) :
             /\ CharAt(verStr, p) = DOT
             /\ SMB_IS_DIGIT(CharAt(verStr, p + 1))
             /\ SMB_IS_DIGIT(CharAt(verStr, p - 1))
     /\ (State \in {0, 1, 2}) => (~accepted /\ Release = DefaultRelease)
     /\ (verStr = Ver9Dot) => (~accepted /\ State = 0)
     /\ (verStr = VerNoNumbers) => (~accepted /\ State = 0)

C10_Witness ==
  /\ scanPc = "done"
  /\ verStr = Ver9Dot
  /\ ~accepted
  /\ maxRead = 2

(***************************************************************************)
(* The string pack read back: the bytes after the body, split into         *)
(* NUL-delimited runs up to the double NUL.                                *)
(***************************************************************************)
\* the strings with their NULs, one after the other
RECURSIVE Flatten(_)
Flatten(list) ==
  IF list = <<>> THEN <<>> ELSE (Head(list) \o <<0>>) \o Flatten(Tail(list))

\* first offset >= p of b that holds a NUL (Len(b) when there is none)
RECURSIVE NulAt(_, _)
NulAt(b, p) == IF (p < Len(b)) /\ (b[p + 1] # 0) THEN NulAt(b, p + 1) ELSE p

\* the runs of b from offset p on; a NUL where a run would start ends the set
RECURSIVE Runs(_, _)
Runs(b, p) ==
  IF (p >= Len(b)) \/ (b[p + 1] = 0) THEN <<>>
  ELSE LET e == NulAt(b, p)
       IN  <<SubSeq(b, p + 1, e)>> \o Runs(b, e + 1)

\* the string list a reader finds after a body of n bytes
SplitStrings(blob, n) == Runs(SubSeq(blob, n + 1, Len(blob)), 0)

RECURSIVE SumSeq(_)
SumSeq(q) == IF q = <<>> THEN 0 ELSE Head(q) + SumSeq(Tail(q))

Submitted == logPc \in {"ret", "hung"} /\ logRet.adds = 1 /\ ~StringPack.null

NoEmptyString(list) == \A k \in 1..Len(list) : list[k] # <<>>

(***************************************************************************)
(* C3 (as amended): for every body and every ordered list of non-empty     *)
(* strings, the empty list included, the blob submitted is the body bytes  *)
(* verbatim, then the strings in order each with its NUL, then one more    *)
(* NUL (two NULs when the list is empty); splitting the bytes after the    *)
(* body into NUL-delimited runs up to the double NUL gives back exactly    *)
(* the input list, in order.                                               *)
(***************************************************************************)
C3_RoundTrip ==
  (Submitted /\ NoEmptyString(StringPack.list)) =>
     /\ logRet.Record =
          Template \o Flatten(StringPack.list) \o
            (IF StringPack.list = <<>> THEN <<0, 0>> ELSE <<0>>)
     /\ SplitStrings(logRet.Record, Len(Template)) = StringPack.list

C3_Witness ==
  /\ Submitted
  /\ Len(StringPack.list) = 2
  /\ StringPack.list[1] # StringPack.list[2]
  /\ NoEmptyString(StringPack.list)
  /\ SplitStrings(logRet.Record, Len(Template)) = StringPack.list

\* C3 as stated: for every list, the empty list and empty strings included.
C3_Original ==
  Submitted =>
     /\ logRet.Record = Template \o Flatten(StringPack.list) \o <<0>>
     /\ SplitStrings(logRet.Record, Len(Template)) = StringPack.list

(***************************************************************************)
(* C4 (as amended): the length of the blob allocated and submitted is body *)
(* length + the sum over the strings of (string length + 1) + 1 for every  *)
(* non-empty string list, and body length + 2 for the empty list.          *)
(***************************************************************************)
StrLens == [k \in 1..Len(StringPack.list) |-> Len(StringPack.list[k]) + 1]

C4_BlobLength ==
  Submitted =>
     /\ logRet.Size = Len(logRet.Record)
     /\ ~logRet.oob
     /\ Len(logRet.Record) =
          IF StringPack.list = <<>> THEN Len(Template) + 2
          ELSE Len(Template) + SumSeq(StrLens) + 1

C4_Witness ==
  /\ Submitted
  /\ Len(StringPack.list) = 2
  /\ Len(logRet.Record) = Len(Template) + SumSeq(StrLens) + 1
  /\ SumSeq(StrLens) > 3

\* C4 as stated: the same formula for the empty list too.
C4_Original ==
  Submitted => Len(logRet.Record) = Len(Template) + SumSeq(StrLens) + 1

(***************************************************************************)
(* C5: when the string list is empty the blob submitted is the body        *)
(* followed by exactly two NUL bytes: its last two bytes are 00 00 and no  *)
(* byte beyond them is written.                                            *)
(***************************************************************************)
C5_EmptyPackDoubleNul ==
  (Submitted /\ StringPack.list = <<>>) =>
     /\ logRet.Record = Template \o <<0, 0>>
     /\ logRet.Record[Len(logRet.Record) - 1] = 0
     /\ logRet.Record[Len(logRet.Record)] = 0
     /\ ~logRet.oob
     /\ logRet.hi <= Len(logRet.Record)

C5_Witness ==
  /\ Submitted
  /\ StringPack.list = <<>>
  /\ Len(Template) > 4
  /\ logRet.Record = Template \o <<0, 0>>

(***************************************************************************)
(* C11: when the version scanner finds no match in the firmware version    *)
(* string, BIOSInfoUpdateSmbiosType0 leaves SystemBiosMajorRelease and     *)
(* SystemBiosMinorRelease at their compiled-in 0 and still makes its       *)
(* LogSmbiosData call: the firmware-identity record is submitted, with 0   *)
(* in both fields, whenever that call gets as far as Smbios->Add.          *)
(***************************************************************************)
\* the two release bytes of a submitted firmware-identity record
ReleaseOf(Record) == SubSeq(Record, 5, 6)

C11_NoMatchKeepsDefault ==
  (MatchStarts(platform.board.PcdFirmwareVersionString) = {}) =>
     /\ mBIOSInfoType0.SystemBiosMajorRelease = 0
     /\ mBIOSInfoType0.SystemBiosMinorRelease = 0
     /\ (entryPc > 2) => (Cardinality(Positions(calls, "mBIOSInfoType0")) = 1)
     /\ ReachedAdd("mBIOSInfoType0") => (Positions(smbios, "mBIOSInfoType0") # {})
     /\ \A k \in Positions(smbios, "mBIOSInfoType0") :
          ReleaseOf(smbios[k].Record) = <<0, 0>>

\* "9." was scanned, a candidate begun and dropped, and the record registered
C11_Witness ==
  /\ platform.board.PcdFirmwareVersionString = Ver9Dot
  /\ staging.mBiosVersion = Ver9Dot
  /\ \E k \in Positions(smbios, "mBIOSInfoType0") :
       /\ smbios[k].Status = EFI_SUCCESS
       /\ ReleaseOf(smbios[k].Record) = <<0, 0>>

(***************************************************************************)
(* C12: if the buffer allocation in LogSmbiosData fails, the call returns  *)
(* EFI_OUT_OF_RESOURCES, makes no submission to the registry and does not  *)
(* store through the caller's DataSmbiosHandle.                            *)
(***************************************************************************)
C12_AllocFailure ==
  [][LogNoMemory =>
       /\ logPc' = "ret"
       /\ logRet'.returned
       /\ logRet'.Status = EFI_OUT_OF_RESOURCES
       /\ logRet'.adds = 0
       /\ logRet'.Record = <<>>
       /\ logRet'.DataSmbiosHandle = NotWritten
       /\ logRet'.frees = 0]_vars

\* a call that asked for the handle, with two strings to carry, has come
\* back from a failed allocation
C12_Witness ==
  /\ logPc = "ret"
  /\ wantHandle
  /\ ~StringPack.null /\ Len(StringPack.list) = 2
  /\ logRet.Status = EFI_OUT_OF_RESOURCES
  /\ logRet.allocs = 0
  /\ logRet.Size = LogSize(Template, StringPack)

(***************************************************************************)
(* C13 (as amended): in every LogSmbiosData call that reaches submission,  *)
(* Smbios->Add is invoked exactly once whether it succeeds or is rejected. *)
(* When the call returns, the status it returns is the status Add returned *)
(* and the buffer has been released exactly once.  Where ASSERT_EFI_ERROR  *)
(* is compiled in, a rejected Add stops the call in the assertion: nothing *)
(* is returned and the buffer is never released.                           *)
(***************************************************************************)
\* the call is over (returned or stopped) and had a record to hand to Add
ReachedSubmission == logPc \in {"ret", "hung"} /\ logRet.Record # <<>>

RegistrationOrder ==
  <<"mBIOSInfoType0", "mSysInfoType1", "mEnclosureInfoType3", "mBoardInfoType2",
    "mCacheInfoType7_L1I", "mCacheInfoType7_L1D", "mCacheInfoType7_L2",
    "mProcessorInfoType4", "mSysSlotInfoType9", "mOemStringsType11",
    "mPhyMemArrayInfoType16", "mMemDevInfoType17", "mMemArrMapInfoType19",
    "mBootInfoType32">>

\* the calls made so far are the first calls of the fixed order
InOrderSoFar ==
  /\ Len(calls) <= Len(RegistrationOrder)
  /\ \A k \in 1..Len(calls) : calls[k].name = RegistrationOrder[k]

\* the entry point is past its last builder
PastLastBuilder == entryPc >= Len(EntrySequence)

C14_AllAttempted ==
  /\ ~halted
  /\ InOrderSoFar
  /\ PastLastBuilder => (Len(calls) = Len(RegistrationOrder))
  /\ (entryPc > Len(EntrySequence)) => (entryStatus = EFI_SUCCESS)

\* the registry rejected the very first record and the assertion holds the
\* CPU: thirteen registrations were never attempted and nothing is returned
C14_Witness ==
  /\ halted
  /\ platform.debug
  /\ Len(calls) = 1
  /\ calls[1].Status = EFI_ALREADY_STARTED
  /\ ~calls[1].returned
  /\ entryStatus = NotEntered

(***************************************************************************)
(* The blob of every topic written out from the platform's inputs          *)
(***************************************************************************)
\* body, each string with its NUL, and the closing NUL (two for no string)
BlobOf(T, strings) ==
  T \o (IF strings = <<>> THEN <<0, 0>> ELSE Flatten(strings) \o <<0>>)

\* the record with the 16-bit field at bytes first, first + 1 blanked
Blank(R, first) == [k \in 1..Len(R) |-> IF k \in {first, first + 1} THEN 0 ELSE R[k]]

\* the record of table name with its cross-reference fields blanked
WithoutHandles(name, R) ==
  CASE name = "mBoardInfoType2" -> Blank(R, 5)
    [] name = "mProcessorInfoType4" -> Blank(Blank(R, 17), 19)
    [] name = "mMemDevInfoType17" -> Blank(R, 5)
    [] name = "mMemArrMapInfoType19" -> Blank(R, 13)
    [] OTHER -> R

ExpectedRelease(b) ==
  ScanRelease(ScanLoop(b.PcdFirmwareVersionString,
                       [i |-> 0, State |-> 0, Value |-> <<0, 0>>, maxRead |-> -1]),
              DefaultRelease)

ExpectedSerial(b) == I64ToHexString(17, BoardSerialOf(b.OtpData))

ExpectedMiB(b) == b.SdramGetMemorySize.MiB % 65536

\* what table name holds when the entry point runs on board b, handles apart
ExpectedBlob(b, name) ==
  CASE name = "mBIOSInfoType0" ->
         BlobOf(BytesType0([BIOSInfoType0Static EXCEPT
                              !.SystemBiosMajorRelease = ExpectedRelease(b)[1],
                              !.SystemBiosMinorRelease = ExpectedRelease(b)[2]]),
                <<b.PcdFirmwareVendor, b.PcdFirmwareVersionString,
                  FormatDate(b.Month, b.Day, b.Year)>>)
    [] name = "mSysInfoType1" ->
         BlobOf(BytesType1([Uuid |-> SubSeq(BoardRevision, 1, 4) \o U16(0) \o U16(0)
                                     \o SwapBytes64(BoardSerialOf(b.OtpData))]),
                <<b.PcdPlatformVendorName, b.PcdPlatformName, FormatBoardRevision,
                  ExpectedSerial(b), I64ToHexString(17, BoardRevision),
                  b.PcdFamilyName>>)
    [] name = "mEnclosureInfoType3" ->
         BlobOf(mEnclosureInfoType3,
                <<b.PcdPlatformVendorName, b.PcdPlatformName, ExpectedSerial(b),
                  StrSpace>>)
    [] name = "mBoardInfoType2" ->
         BlobOf(Blank(BytesType2(BoardInfoType2Static), 5),
                <<b.PcdPlatformVendorName, b.PcdPlatformName, FormatBoardRevision,
                  ExpectedSerial(b), StrSpace, StrInternal>>)
    [] name = "mCacheInfoType7_L1I" -> BlobOf(mCacheInfoType7_L1I, <<StrL1I>>)
    [] name = "mCacheInfoType7_L1D" -> BlobOf(mCacheInfoType7_L1D, <<StrL1D>>)
    [] name = "mCacheInfoType7_L2" -> BlobOf(mCacheInfoType7_L2, <<StrL2>>)
    [] name = "mProcessorInfoType4" ->
         BlobOf(Blank(Blank(BytesType4(
                  [ProcessorInfoType4Static EXCEPT
                     !.CoreCount = 4, !.CoreCount2 = 4, !.EnabledCoreCount = 4,
                     !.EnabledCoreCount2 = 4, !.ThreadCount = 4, !.ThreadCount2 = 4,
                     !.MaxSpeed = ProcessorGetRate(b) \div 1000000,
                     !.CurrentSpeed = ProcessorGetRate(b) \div 1000000,
                     !.ProcessorId = b.Midr]), 17), 19),
                <<StrSocket, StrRockchip, b.PcdCpuName>>)
    [] name = "mSysSlotInfoType9" -> BlobOf(mSysSlotInfoType9, <<StrSdCard>>)
    [] name = "mOemStringsType11" -> BlobOf(mOemStringsType11, <<b.PcdProductUrl>>)
    [] name = "mPhyMemArrayInfoType16" ->
         BlobOf(BytesType16([MaximumCapacity |-> ExpectedMiB(b) * 1024]), <<>>)
    [] name = "mMemDevInfoType17" ->
         BlobOf(Blank(BytesType17([MemDevInfoType17Static EXCEPT
                                     !.Size = ExpectedMiB(b),
                                     !.VolatileSize = U64(Wide(ExpectedMiB(b), 0))]), 5),
                <<StrSDRAM, b.PcdMemoryVendorName>>)
    [] name = "mMemArrMapInfoType19" ->
         BlobOf(Blank(BytesType19([MemArrMapInfoType19Static EXCEPT
                   !.StartingAddress = U32(KiB(b.PcdSystemMemoryBase)),
                   !.EndingAddress = U32(KiB(b.PcdSystemMemoryBase)
                                         + KiB(b.SdramGetMemorySize) - 1)]), 13),
                <<>>)
    [] name = "mBootInfoType32" -> BlobOf(mBootInfoType32, <<>>)

\* the blobs of every board, computed once
ShippedBlobs ==
  [b \in Boards |->
     [name \in {RegistrationOrder[k] : k \in 1..Len(RegistrationOrder)} |->
        ExpectedBlob(b, name)]]

\* every record the registry was handed so far is the one written out above
BlobsAsShipped ==
  \A k \in 1..Len(smbios) :
    WithoutHandles(smbios[k].name, smbios[k].Record)
      = ShippedBlobs[platform.board][smbios[k].name]

\* the system builder is called before the two builders that read its text
SystemFirst(q) ==
  /\ CalledBefore(q, "SysInfoUpdateSmbiosType1", "EnclosureInfoUpdateSmbiosType3")
  /\ CalledBefore(q, "SysInfoUpdateSmbiosType1", "BoardInfoUpdateSmbiosType2")

(***************************************************************************)
(* C15 (as amended): for every ordering of the topic builders that keeps   *)
(* chassis before board, caches before processor, memory array before      *)
(* memory device and mapped address, and also the system builder before    *)
(* the chassis and board builders, each topic's submitted blob (body and   *)
(* strings) is the same as in the shipped order.                           *)
(***************************************************************************)
C15_Independent == SystemFirst(order) => BlobsAsShipped

\* a rearranged entry point has registered all fourteen tables
C15_Witness ==
  /\ order # EntrySequence
  /\ SystemFirst(order)
  /\ entryStatus = EFI_SUCCESS
  /\ Len(smbios) = 14

\* C15 as stated: the three handle orderings alone keep every blob
C15_Original == order \in Reorderings => BlobsAsShipped

\* the value of the little-endian bytes q
RECURSIVE LittleEndian(_)
LittleEndian(q) == IF q = <<>> THEN 0 ELSE Head(q) + 256 * LittleEndian(Tail(q))

\* a byte count in whole kilobytes
InKilobytes(w) == (w.MiB * 1024) + (w.Bytes \div 1024)

StartingAddressOf(Record) == LittleEndian(SubSeq(Record, 5, 8))

EndingAddressOf(Record) == LittleEndian(SubSeq(Record, 9, 12))

(***************************************************************************)
(* C16: for every DRAM size and memory base address, the mapped-address    *)
(* (Type 19) record submitted holds StartingAddress = base / 1024 and      *)
(* EndingAddress = StartingAddress + size / 1024 - 1, in kilobytes; for    *)
(* 2 GiB of DRAM at base 0 that is 0 and 2 * 1024 * 1024 - 1.              *)
(***************************************************************************)
C16_MappedAddress ==
  \A k \in 1..Len(smbios) :
    smbios[k].name = "mMemArrMapInfoType19" =>
      LET b == platform.board
          R == smbios[k].Record
      IN  /\ StartingAddressOf(R) = InKilobytes(b.PcdSystemMemoryBase)
          /\ EndingAddressOf(R)
               = StartingAddressOf(R) + InKilobytes(b.SdramGetMemorySize) - 1
          /\ (b.PcdSystemMemoryBase = Wide(0, 0)) /\ (b.SdramGetMemorySize = Wide(2048, 0))
               => (StartingAddressOf(R) = 0) /\ (EndingAddressOf(R) = (2 * 1024 * 1024) - 1)

\* the record of a board whose DRAM starts above address 0 is registered
C16_Witness ==
  \E k \in 1..Len(smbios) :
    /\ smbios[k].name = "mMemArrMapInfoType19"
    /\ smbios[k].Status = EFI_SUCCESS
    /\ StartingAddressOf(smbios[k].Record) = 2049
    /\ EndingAddressOf(smbios[k].Record) = 2049 + 8388608 - 1

SizeOf(Record) == LittleEndian(SubSeq(Record, 7, 8))

VolatileSizeOf(Record) == SubSeq(Record, 9, 16)

MaximumCapacityOf(Record) == LittleEndian(SubSeq(Record, 5, 8))

\* the eight bytes q hold n * 2^20
IsMegabytes(q, n) == (SubSeq(q, 1, 2) = <<0, 0>>) /\ (LittleEndian(SubSeq(q, 3, 8)) = n * 16)

(***************************************************************************)
(* C17: for every DRAM size the provider returns, the memory-device        *)
(* (Type 17) record submitted has Size = DRAM size / 2^20 (whole           *)
(* megabytes) and VolatileSize = Size * 2^20 bytes, and the memory-array   *)
(* (Type 16) record submitted has MaximumCapacity = Size * 1024 kilobytes. *)
(***************************************************************************)
C17_SizesConsistent ==
  \A k \in 1..Len(smbios) :
    LET R    == smbios[k].Record
        DRAM == platform.board.SdramGetMemorySize
    IN  /\ smbios[k].name = "mMemDevInfoType17" =>
             (SizeOf(R) = DRAM.MiB) /\ IsMegabytes(VolatileSizeOf(R), SizeOf(R))
        /\ smbios[k].name = "mPhyMemArrayInfoType16" =>
             MaximumCapacityOf(R) = DRAM.MiB * 1024

\* both records of a board whose DRAM size is not a whole number of
\* megabytes are registered
C17_Witness ==
  /\ platform.board.SdramGetMemorySize = Wide(1023, 524281)
  /\ \E k \in 1..Len(smbios) :
       /\ smbios[k].name = "mPhyMemArrayInfoType16"
       /\ smbios[k].Status = EFI_SUCCESS
       /\ MaximumCapacityOf(smbios[k].Record) = 1023 * 1024
  /\ \E k \in 1..Len(smbios) :
       /\ smbios[k].name = "mMemDevInfoType17"
       /\ smbios[k].Status = EFI_SUCCESS
       /\ SizeOf(smbios[k].Record) = 1023

(***************************************************************************)
(* C18: for every 32-bit seed and all byte buffers A and B, the checksum   *)
(* of B seeded with the checksum of A equals the checksum of A followed by *)
(* B under the same seed, every byte step being                            *)
(* crc := (crc >> 8) XOR table[(crc AND 0xFF) XOR byte]; a buffer of       *)
(* length zero returns the seed unchanged.                                 *)
(***************************************************************************)
C18_Chaining ==
  (crcPc = "ret" /\ OtpData = <<>>) =>
     /\ \A k \in 0..Len(Buffer) :
          LET A == SubSeq(Buffer, 1, k)
              B == SubSeq(Buffer, k + 1, Len(Buffer))
          IN  CalculateCrc32NoComp(CalculateCrc32NoComp(Crc, A), B) = crcRet
     /\ Buffer = <<>> => crcRet = Crc
     /\ Len(Buffer) = 1 =>
          crcRet = XorW(Shr8(Crc), mCrcTable[Xor8(Low8(Crc), Buffer[1]) + 1])

\* a buffer of three bytes was summed under a seed that is not 0
C18_Witness ==
  /\ crcPc = "ret"
  /\ Len(Buffer) = 3
  /\ Crc = W(\h12, \h34, \h56, \h78)
  /\ crcRet # Crc

(***************************************************************************)
(* C19: two runs of the entry point with identical external inputs against *)
(* two independent empty registries submit byte-identical blobs for every  *)
(* topic, the registry-assigned handle values embedded in consumer records *)
(* apart: whatever the registry's first free handle, whatever uninitialised*)
(* locals hold and whichever calls fail, every blob submitted is the one   *)
(* that the board's inputs alone determine.                                *)
(***************************************************************************)
C19_Deterministic == (order = EntrySequence) => BlobsAsShipped

\* a run against a registry whose first free handle is not 0 has registered
\* all fourteen tables; the board record carries the handle of the chassis
C19_Witness ==
  /\ order = EntrySequence
  /\ platform.base = 256
  /\ entryStatus = EFI_SUCCESS
  /\ Len(smbios) = 14
  /\ \E k \in 1..Len(smbios) :
       /\ smbios[k].name = "mBoardInfoType2"
       /\ smbios[k].Record # WithoutHandles("mBoardInfoType2", smbios[k].Record)

\* a call with DataSmbiosHandle = NULL that got its buffer hands the record
\* to the registry and stores no handle
NullHandleAccepted ==
  (logPc \in {"ret", "hung"} /\ ~wantHandle /\ ~StringPack.null /\ logRet.allocs = 1) =>
     (logRet.adds = 1) /\ (logRet.DataSmbiosHandle = NotWritten)

(***************************************************************************)
(* C20: LogSmbiosData accepts a NULL StringPack: called with StringPack =  *)
(* NULL it completes without dereferencing the NULL pointer and submits a  *)
(* record made of the template body followed by a double NUL; likewise a   *)
(* NULL DataSmbiosHandle is accepted and the record is still submitted.    *)
(***************************************************************************)
C20_NullPackAccepted ==
  /\ NullHandleAccepted
  /\ (logPc \in {"ret", "hung"} /\ StringPack.null /\ logRet.allocs = 1) =>
       /\ logRet.adds = 1
       /\ ~logRet.oob
       /\ logRet.Record = SubSeq(Template, 1, HdrLength(Template)) \o <<0, 0>>

\* StringPack is NULL and the call stopped at the read of StringPack[0],
\* its buffer allocated and nothing handed to the registry
C20_Witness ==
  /\ logPc = "hung"
  /\ StringPack.null
  /\ logRet.allocs = 1
  /\ logRet.adds = 0
  /\ logRet.frees = 0

\* index of the last digit the loop consumed before it ended accepted
LastDigit == IF State = 3 THEN i - 1 ELSE i - 2

\* the characters d .. e of s are digits and a '.' stands before them
MinorRun(s, d, e) ==
  /\ \A k \in d..e : SMB_IS_DIGIT(CharAt(s, k))
  /\ CharAt(s, d - 1) = DOT

(***************************************************************************)
(* C21: whenever the version scanner ends in an accepted state (3 or 4),   *)
(* at least one minor digit has been consumed and both accumulators are in *)
(* 0..255, so the casts to UINT8 that store SystemBiosMajorRelease and     *)
(* SystemBiosMinorRelease do not truncate; for every input string, those   *)
(* where an earlier candidate overflowed included.                         *)
(***************************************************************************)
C21_AcceptedInRange ==
  (scanPc = "done" /\ ScanAccepts(ScanState)) =>
     /\ accepted
     /\ Value[1] \in 0..255
     /\ Value[2] \in 0..255
     /\ Release = Value
     /\ SMB_IS_DIGIT(CharAt(verStr, LastDigit))
     /\ \E d \in 2..LastDigit : MinorRun(verStr, d, LastDigit)

\* "256.1 3.4" ends accepted on the second candidate, the stack having held
\* other values than 0 when the scan began
C21_Witness ==
  /\ scanPc = "done"
  /\ verStr = VerMajor256
  /\ accepted
  /\ Release = <<3, 4>>

(***************************************************************************)
(* C22: for every NUL-terminated version string of length n the scanner's  *)
(* loop terminates, and every character read, the look-ahead reads at      *)
(* index i + 1 of the boundary check and of the overflow digit-skip loop   *)
(* included, is at an index of at most n (the terminator): no byte after   *)
(* the terminator is read.                                                 *)
(***************************************************************************)
C22_TerminatesInBounds ==
  /\ [](maxRead <= Len(verStr))
  /\ [](i <= Len(verStr))
  /\ [][scanPc = "loop" => (i' > i) \/ (scanPc' = "done")]_vars
  /\ <>(scanPc = "done")

\* "999": the digit-skip loop of the overflow branch has read the terminator
C22_Witness ==
  /\ scanPc = "done"
  /\ verStr = <<57, 57, 57>>
  /\ maxRead = Len(verStr)
  /\ i = Len(verStr)

\* the value the cross-reference field of consumer is compiled with
CompiledIn(consumer) == IF consumer = "mProcessorInfoType4" THEN U16(65535) ELSE U16(0)

\* the LogSmbiosData call for table name returned an error
Failed(name) ==
  \E c \in 1..Len(calls) : calls[c].name = name /\ calls[c].Status # EFI_SUCCESS

(***************************************************************************)
(* C23: if registering a producer record (chassis, L1 data cache, L2 cache *)
(* or memory array) fails, the cross-reference field of its consumer       *)
(* record keeps its compiled-in default (0 for board.ChassisHandle and the *)
(* two MemoryArrayHandle fields, 0xFFFF for the processor's L1CacheHandle  *)
(* and L2CacheHandle) when the consumer is submitted.                      *)
(***************************************************************************)
C23_FailedKeepsDefault ==
  \A d \in References :
    \A k \in Positions(smbios, d[2]) :
      Failed(d[1]) => CrossReference(d[1], d[2], smbios[k].Record) = CompiledIn(d[2])

\* the registry rejected the chassis record, the call returned, and the
\* board record was registered with what the uninitialised local held
C23_Witness ==
  /\ Failed("mEnclosureInfoType3")
  /\ \E k \in 1..Len(smbios) :
       /\ smbios[k].name = "mBoardInfoType2"
       /\ smbios[k].Status = EFI_SUCCESS
       /\ ChassisHandleOf(smbios[k].Record) = U16(4660)

====
